---- MODULE Spec2Model ----
(***************************************************************************)
(* A model of the GoClaw/DevClaw copilot: the per-session message queue    *)
(* (pkg/goclaw/copilot/message_queue.go) and the Assistant's message       *)
(* pipeline (handleMessage, handleDrainedMessages, executeAgent,           *)
(* StopActiveRun in the assistant source).                                 *)
(*                                                                         *)
(* Strings are sequences of one-character strings, so that TrimSpace,      *)
(* EqualFold and the formatting done by CombineMessages are computed.      *)
(* Time is the wall clock in milliseconds.                                 *)
(***************************************************************************)
EXTENDS Integers, Sequences, FiniteSets, TLC

VARIABLES
    now,         \* time.Now(), in milliseconds
    items,       \* sessionQueue.items, per session: <<[msg, enqueued]>>
    timer,       \* sessionQueue.timer, per session
    cb,          \* per session: timer callbacks that fired and have not yet run
    processing,  \* sessionQueue.processing, per session
    nextId,      \* number of IncomingMessages produced by the channels so far
    drains,      \* per session: the batches returned by Drain, in order, each
                 \* with onDrain: whether it was handed to the onDrain callback
    accepted,    \* per session: messages Enqueue accepted since the last Drain
    cmIn,        \* CombineMessages: the argument
    cmOut,       \* CombineMessages: the value returned
    workers,     \* the goroutines running handleMessage: [msg, pc, ...]
    history,     \* per session: Session.history, <<[ids, resp]>>
    sent,        \* the replies handed to channelMgr.Send: {[ids, kind]}
    activeRuns,  \* Assistant.activeRuns: per run key, whose cancel func it holds
    asked,       \* AccessManager: the senders marked as asked
    everQueued,  \* the original messages Enqueue has accepted
    evicted,     \* the ids of the messages evicted by the cap of Enqueue
    denied,      \* the ids of the messages dropped by a silent denial
    toolCtx,     \* ToolExecutor: the caller and session context last set
    gIn,         \* ToolGuard.Check: the configuration of the guard and the arguments
    gOut,        \* ToolGuard.Check: whether it was called, and the value returned
    guard,       \* the ToolGuard shared by Check and UpdateConfig: cfg,
                 \* dangerousPatterns, defaultPatternCount, protectedPaths
    upd,         \* the goroutine in UpdateConfig: [pc, old, cfg, i]
    chk,         \* the goroutine in Check: [pc, toolName, callerLevel, args, ...]
    ag,          \* AgentRun.RunWithUsage: [pc, maxTurns, totalTurns, messages, ...]
    env,         \* the contexts of the run: the clock, the run deadline, the
                 \* cancel of the caller
    interruptCh, \* AgentRun.interruptCh: the strings sent and not yet received
    alog,        \* what the run did: the LLM calls, the tool batches, the
                 \* strings sent on interruptCh
    ov,          \* doLLMCallWithOverflowRetry: [pc, attempt, messages, keepRecent, ...]
    prompt,      \* PromptComposer.Compose: the configuration and the session it
                 \* reads, and the value returned
    sess,        \* maybeCompactSession: MaxMessages, the length of the history,
                 \* and whether the compaction was started
    toolLog      \* the tool calls executed: {[ids, from, sess, ctx]}: the message
                 \* of the run, its sender and session, and the context used

qvars == <<now, items, timer, cb, processing, nextId, drains, accepted>>
cvars == <<cmIn, cmOut>>
pvars == <<workers, history, sent, activeRuns, asked, everQueued, evicted, denied>>
tvars == <<toolCtx, toolLog>>
\* The variables of the pure functions called on their own.
rvars == <<guard, upd, chk>>
xvars == <<prompt, sess>>
avars == <<ag, env, interruptCh, alog, ov, xvars>>
gvars == <<gIn, gOut, rvars, avars>>
fvars == <<cmIn, cmOut, gIn, gOut, rvars, avars>>
vars == <<now, items, timer, cb, processing, nextId, drains, accepted, cmIn, cmOut,
          workers, history, sent, activeRuns, asked, everQueued, evicted, denied,
          toolCtx, toolLog, gIn, gOut, guard, upd, chk, ag, env, interruptCh, alog, ov,
          prompt, sess>>

----------------------------------------------------------------------------
(* Program constants and configuration *)

DefaultDebounceMs == 1000
DedupWindowSec == 5

\* Queue.DebounceMs and Queue.MaxPending of the configuration.
debounceMs == DefaultDebounceMs
maxPending == 2
dedupSec == DedupWindowSec

\* Bounds of the model.
MaxMsgs == 3
MaxClockTicks == 5
TickMs == debounceMs
MaxClock == MaxClockTicks * TickMs

Sessions == {"dm", "grp"}

----------------------------------------------------------------------------
(* Strings *)

Str(s) ==
    [i \in 1..Len(s) |-> s[i]]

IsSpace(c) ==
    c \in {" ", "\t", "\n", "\r"}

RECURSIVE TrimLeft(_)
TrimLeft(s) ==
    IF s # <<>> /\ IsSpace(Head(s)) THEN TrimLeft(Tail(s)) ELSE s

RECURSIVE TrimRight(_)
TrimRight(s) ==
    IF s # <<>> /\ IsSpace(s[Len(s)]) THEN TrimRight(SubSeq(s, 1, Len(s) - 1)) ELSE s

\* strings.TrimSpace
TrimSpace(s) ==
    TrimRight(TrimLeft(s))

Digit(d) ==
    <<"0", "1", "2", "3", "4", "5", "6", "7", "8", "9">>[d + 1]

\* fmt.Sprintf("%d", n) for n >= 0
RECURSIVE Itoa(_)
Itoa(n) ==
    IF n < 10 THEN <<Digit(n)>> ELSE Itoa(n \div 10) \o <<Digit(n % 10)>>

\* "[Multiple messages received while busy]\n"
BusyHeader ==
    <<"[", "M", "u", "l", "t", "i", "p", "l", "e", " ",
      "m", "e", "s", "s", "a", "g", "e", "s", " ",
      "r", "e", "c", "e", "i", "v", "e", "d", " ",
      "w", "h", "i", "l", "e", " ", "b", "u", "s", "y", "]", "\n">>

\* CombineFrom, numbering the messages from 0.
RECURSIVE CombineFromZeroBased(_, _)
CombineFromZeroBased(msgs, i) ==
    IF i > Len(msgs) THEN <<>>
    ELSE Itoa(i - 1) \o <<".", " ">> \o TrimSpace(msgs[i].content)
         \o (IF i < Len(msgs) THEN <<"\n">> ELSE <<>>)
         \o CombineFromZeroBased(msgs, i + 1)

\* The loop body of CombineMessages for the messages i..len(msgs).
RECURSIVE CombineFrom(_, _)
CombineFrom(msgs, i) ==
    IF i > Len(msgs) THEN <<>>
    ELSE Itoa(i) \o <<".", " ">> \o TrimSpace(msgs[i].content)
         \o (IF i < Len(msgs) THEN <<"\n">> ELSE <<>>)
         \o CombineFrom(msgs, i + 1)

CombineMessages(msgs) ==
    IF Len(msgs) = 0 THEN <<>>
    ELSE IF Len(msgs) = 1 THEN msgs[1].content
    ELSE BusyHeader \o CombineFrom(msgs, 1)

\* The ids of the original messages a batch is made of, in order.
RECURSIVE AllIds(_)
AllIds(msgs) ==
    IF msgs = <<>> THEN <<>> ELSE msgs[1].ids \o AllIds(Tail(msgs))

\* handleDrainedMessages: the messages handed to handleMessage for a drained
\* batch: none for an empty batch, else the first message with the combined
\* content (ids keeps which original messages the content is made of).
HandleDrained(msgs) ==
    IF Len(msgs) = 0 THEN <<>>
    ELSE <<[msgs[1] EXCEPT !.content = CombineMessages(msgs), !.ids = AllIds(msgs)]>>

\* The last n elements of q (all of q when it is shorter).
LastN(q, n) ==
    IF Len(q) <= n THEN q ELSE SubSeq(q, Len(q) - n + 1, Len(q))

----------------------------------------------------------------------------
(* MessageQueue *)

NilTimer == [set |-> FALSE, deadline |-> 0, fired |-> FALSE]

\* time.AfterFunc(dur, ...) called at time t
AfterFunc(t, dur) == [set |-> TRUE, deadline |-> t + dur, fired |-> FALSE]

\* IsDuplicate, comparing the content only and ignoring the dedup window.
IsDuplicateNoWindow(s, msg) ==
    \E i \in 1..Len(items[s]) : items[s][i].msg.content = msg.content

\* The dedup loop of Enqueue: some pending entry has the same content and
\* was enqueued less than dedupSec seconds ago.
IsDuplicate(s, msg) ==
    \E i \in 1..Len(items[s]) :
        /\ items[s][i].msg.content = msg.content
        /\ now - items[s][i].enqueued < dedupSec * 1000

\* Capped, evicting the newest pending entry instead of the oldest.
CappedDropsNewest(q) ==
    IF Len(q) >= maxPending THEN SubSeq(q, 1, Len(q) - 1) ELSE q

\* The pending list after the cap of Enqueue.
Capped(q) ==
    IF Len(q) >= maxPending THEN Tail(q) ELSE q

\* Enqueue, leaving a timer that is already set as it is instead of
\* restarting it.
EnqueueKeepsTimer(s, msg) ==
    IF IsDuplicate(s, msg)
    THEN UNCHANGED <<items, timer, accepted>>
    ELSE /\ items' = [items EXCEPT ![s] = Append(Capped(items[s]), [msg |-> msg, enqueued |-> now])]
         /\ timer' = IF timer[s].set /\ ~timer[s].fired THEN timer
                     ELSE [timer EXCEPT ![s] = AfterFunc(now, debounceMs)]
         /\ accepted' = [accepted EXCEPT ![s] = Append(accepted[s], msg)]

\* MessageQueue.Enqueue, under q.mu.  A timer that was stopped before it
\* fired never runs its callback; one that had fired keeps its callback
\* (counted in cb) and is only replaced.
Enqueue(s, msg) ==
    IF IsDuplicate(s, msg)
    THEN UNCHANGED <<items, timer, accepted>>
    ELSE /\ items' = [items EXCEPT ![s] = Append(Capped(items[s]), [msg |-> msg, enqueued |-> now])]
         /\ timer' = [timer EXCEPT ![s] = AfterFunc(now, debounceMs)]
         /\ accepted' = [accepted EXCEPT ![s] = Append(accepted[s], msg)]

\* The messages Drain returns.
DrainMsgs(s) ==
    [i \in 1..Len(items[s]) |-> items[s][i].msg]

\* A Drain that returns the pending messages and leaves them pending.
DrainKeepsItems(s) ==
    IF Len(items[s]) = 0
    THEN UNCHANGED <<items, timer, accepted>>
    ELSE /\ timer' = [timer EXCEPT ![s] = NilTimer]
         /\ UNCHANGED <<items, accepted>>

\* MessageQueue.Drain, under q.mu.
Drain(s) ==
    IF Len(items[s]) = 0
    THEN UNCHANGED <<items, timer, accepted>>
    ELSE /\ timer' = [timer EXCEPT ![s] = NilTimer]
         /\ items' = [items EXCEPT ![s] = <<>>]
         /\ accepted' = [accepted EXCEPT ![s] = <<>>]

IsProcessing(s) ==
    processing[s]

SetProcessing(s, active) ==
    processing' = [processing EXCEPT ![s] = active]

----------------------------------------------------------------------------
(* Regular expressions (package regexp), as far as the ToolGuard uses them *)

\* A regular expression is one of
\*   <<"chr", c>>      the character c
\*   <<"set", S>>      a character of the class S
\*   <<"cat", rs>>     the expressions of the sequence rs, one after the other
\*   <<"star", r>>     r*
\*   <<"opt", r>>      r?
\*   <<"wb">>          \b
\* and is matched against a string under the flag (?i).

UpperCase == <<"D", "K", "M", "F", "S">>
LowerCase == <<"d", "k", "m", "f", "s">>

\* The character c without its case.
ToLower(c) ==
    IF \E i \in 1..Len(UpperCase) : UpperCase[i] = c
    THEN LowerCase[CHOOSE i \in 1..Len(UpperCase) : UpperCase[i] = c]
    ELSE c

Letters ==
    {"a", "b", "c", "d", "e", "f", "h", "i", "k", "l", "m", "n", "o", "p", "r", "s",
     "t", "u", "v", "w", "x"}

\* \s
SpaceClass == {" ", "\t", "\n", "\r"}

\* \w
IsWordChar(c) ==
    ToLower(c) \in Letters \cup {"_", "0", "1", "7"}

\* \b at position i of s: a word character on exactly one side.
AtWordBoundary(s, i) ==
    LET before == i > 1 /\ IsWordChar(s[i - 1])
        after == i <= Len(s) /\ IsWordChar(s[i])
    IN before # after

RECURSIVE Ends(_, _, _)
RECURSIVE EndsCat(_, _, _, _)
RECURSIVE EndsStar(_, _, _)

\* The positions j such that r matches s[i..j-1]: a match of r that starts at
\* position i ends before position j.
Ends(r, s, i) ==
    CASE r[1] = "chr" -> IF i <= Len(s) /\ ToLower(s[i]) = ToLower(r[2]) THEN {i + 1} ELSE {}
      [] r[1] = "set" -> IF i <= Len(s) /\ ToLower(s[i]) \in r[2] THEN {i + 1} ELSE {}
      [] r[1] = "cat" -> EndsCat(r[2], 1, s, {i})
      [] r[1] = "star" -> EndsStar(r[2], s, {i})
      [] r[1] = "opt" -> {i} \cup Ends(r[2], s, i)
      [] r[1] = "wb" -> IF AtWordBoundary(s, i) THEN {i} ELSE {}

\* The ends of rs[k], rs[k+1], ... matched one after the other from a
\* position of from.
EndsCat(rs, k, s, from) ==
    IF k > Len(rs) \/ from = {} THEN from
    ELSE EndsCat(rs, k + 1, s, UNION {Ends(rs[k], s, j) : j \in from})

\* The ends of any number of matches of r from a position of from.
EndsStar(r, s, from) ==
    LET more == from \cup UNION {Ends(r, s, j) : j \in from}
    IN IF more = from THEN from ELSE EndsStar(r, s, more)

\* (*regexp.Regexp).MatchString
MatchString(r, s) ==
    \E i \in 1..(Len(s) + 1) : Ends(r, s, i) # {}

\* The expression for the characters of word, one after the other.
Word(word) ==
    <<"cat", [i \in 1..Len(word) |-> <<"chr", word[i]>>]>>

\* r+
Plus(r) ==
    <<"cat", <<r, <<"star", r>>>>>>

\* strings.Contains
Contains(s, sub) ==
    \E i \in 1..(Len(s) - Len(sub) + 1) : SubSeq(s, i, i + Len(sub) - 1) = sub

\* strings.HasPrefix
HasPrefix(s, prefix) ==
    Len(s) >= Len(prefix) /\ SubSeq(s, 1, Len(prefix)) = prefix

\* strings.HasSuffix
HasSuffix(s, suffix) ==
    Len(s) >= Len(suffix) /\ SubSeq(s, Len(s) - Len(suffix) + 1, Len(s)) = suffix

\* strings.Index for a one-character sep: the first position of sep in s,
\* counted from 0, or -1.
Index(s, sep) ==
    IF \E i \in 1..Len(s) : s[i] = sep
    THEN (CHOOSE i \in 1..Len(s) : s[i] = sep /\ \A j \in 1..(i - 1) : s[j] # sep) - 1
    ELSE -1

----------------------------------------------------------------------------
(* ToolGuard *)

\* ToolCheckResult{Allowed: true}
Allow == [Allowed |-> TRUE, Reason |-> "", RequiresConfirmation |-> FALSE]

\* ToolCheckResult{Allowed: false, Reason: reason}; of the text of a reason
\* the model keeps what tells the reasons apart.
Block(reason) == [Allowed |-> FALSE, Reason |-> reason, RequiresConfirmation |-> FALSE]

\* \brm\s+(-[a-zA-Z]*f[a-zA-Z]*\s+)?/
RmPattern ==
    <<"cat", << <<"wb">>, Word(<<"r", "m">>), Plus(<<"set", SpaceClass>>),
                <<"opt", <<"cat", << <<"chr", "-">>, <<"star", <<"set", Letters>>>>,
                                     <<"chr", "f">>, <<"star", <<"set", Letters>>>>,
                                     Plus(<<"set", SpaceClass>>) >> >> >>,
                <<"chr", "/">> >> >>

\* \bmkfs\b
MkfsPattern ==
    <<"cat", << <<"wb">>, Word(<<"m", "k", "f", "s">>), <<"wb">> >> >>

\* defaultPatterns of compileDangerousPatterns, of which the model has two.
defaultPatterns == <<RmPattern, MkfsPattern>>

\* regexp.Compile("(?i)" + p) for a pattern p of plain characters.
Compile(p) ==
    Word(p)

\* compileDangerousPatterns: the default patterns followed by the custom
\* patterns of the configuration, and for each of them whether it is a
\* default.
compileDangerousPatterns(cfg) ==
    [dangerousPatterns |-> defaultPatterns
          \o [i \in 1..Len(cfg.DangerousCommands) |-> Compile(cfg.DangerousCommands[i])],
     defaultPatternCount |-> [i \in 1..Len(defaultPatterns) |-> TRUE]
                                 \o [i \in 1..Len(cfg.DangerousCommands) |-> FALSE]]

\* os.UserHomeDir() and the working directory of the process.
Home == <<"/", "h">>
Cwd == <<"/", "w">>

\* The default protected paths of initProtectedPaths, of which the model
\* has three: ~/.ssh, .env and /etc/shadow.
defaultProtectedPaths ==
    << Home \o <<"/", ".", "s", "s", "h">>,
       <<".", "e", "n", "v">>,
       <<"/", "e", "t", "c", "/", "s", "h", "a", "d", "o", "w">> >>

\* initProtectedPaths
initProtectedPaths(cfg) ==
    IF Len(cfg.ProtectedPaths) = 0 THEN defaultProtectedPaths ELSE cfg.ProtectedPaths

\* NewToolGuard(cfg), and the guard after UpdateConfig(cfg).
NewToolGuard(cfg) ==
    [cfg |-> cfg,
     dangerousPatterns |-> compileDangerousPatterns(cfg).dangerousPatterns,
     defaultPatternCount |-> compileDangerousPatterns(cfg).defaultPatternCount,
     protectedPaths |-> initProtectedPaths(cfg)]

\* hasPermission with a PermUser case that asks nothing of the caller.
hasPermissionUserForAll(callerLevel, required) ==
    CASE required \in {"public", "user"} -> TRUE
      [] required = "admin" -> callerLevel \in {"owner", "admin"}
      [] required = "owner" -> callerLevel = "owner"
      [] OTHER -> FALSE

\* hasPermission
hasPermission(callerLevel, required) ==
    CASE required = "public" -> TRUE
      [] required = "user" -> callerLevel \in {"owner", "admin", "user"}
      [] required = "admin" -> callerLevel \in {"owner", "admin"}
      [] required = "owner" -> callerLevel = "owner"
      [] OTHER -> FALSE

\* The permission checkToolPermission requires for the tool.
RequiredPermission(g, toolName) ==
    IF toolName \in DOMAIN g.cfg.ToolPermissions
    THEN g.cfg.ToolPermissions[toolName] ELSE "user"

\* checkToolPermission
checkToolPermission(g, toolName, callerLevel) ==
    IF hasPermission(callerLevel, RequiredPermission(g, toolName))
    THEN Allow ELSE Block("permission")

\* The keywords of the reboot/shutdown check.
RebootKeywords ==
    << <<"s", "h", "u", "t", "d", "o", "w", "n">>,
       <<"r", "e", "b", "o", "o", "t">>,
       <<"p", "o", "w", "e", "r", "o", "f", "f">>,
       <<"h", "a", "l", "t">> >>

\* The reboot/shutdown loop of checkCommandSafety from keyword k on: the
\* first block it returns, or Allow when it runs to its end.
RECURSIVE RebootCheck(_, _, _, _)
RebootCheck(g, command, callerLevel, k) ==
    IF k > Len(RebootKeywords) THEN Allow
    ELSE IF Contains(command, RebootKeywords[k])
    THEN (IF ~g.cfg.AllowReboot THEN Block("reboot blocked")
          ELSE IF callerLevel # "owner" THEN Block("reboot requires owner")
          ELSE RebootCheck(g, command, callerLevel, k + 1))
    ELSE RebootCheck(g, command, callerLevel, k + 1)

\* PatternCheck with an owner who passes whatever allow_destructive is.
RECURSIVE PatternCheckOwnerPasses(_, _, _, _)
PatternCheckOwnerPasses(g, command, callerLevel, i) ==
    IF i > Len(g.dangerousPatterns) THEN Allow
    ELSE IF MatchString(g.dangerousPatterns[i], command) /\ callerLevel # "owner"
    THEN Block(IF i - 1 < Len(g.defaultPatternCount)
               THEN "default safety rule" ELSE "safety rule")
    ELSE PatternCheckOwnerPasses(g, command, callerLevel, i + 1)

\* The destructive-pattern loop of checkCommandSafety from pattern i on (i
\* counts from 1, the loop index of the code from 0).
RECURSIVE PatternCheck(_, _, _, _)
PatternCheck(g, command, callerLevel, i) ==
    IF i > Len(g.dangerousPatterns) THEN Allow
    ELSE IF MatchString(g.dangerousPatterns[i], command)
    THEN (IF g.cfg.AllowDestructive /\ callerLevel = "owner"
          THEN PatternCheck(g, command, callerLevel, i + 1)
          ELSE IF ~g.cfg.AllowDestructive \/ callerLevel # "owner"
          THEN Block(IF i - 1 < Len(g.defaultPatternCount)
                     THEN "default safety rule" ELSE "safety rule")
          ELSE PatternCheck(g, command, callerLevel, i + 1))
    ELSE PatternCheck(g, command, callerLevel, i + 1)

\* isSudo of checkCommandSafety
IsSudo(command) ==
    Contains(command, <<"s", "u", "d", "o", " ">>) \/ HasPrefix(command, <<"s", "u", "d", "o">>)

\* The sudo check of checkCommandSafety.
SudoCheck(g, command, callerLevel) ==
    IF ~IsSudo(command) THEN Allow
    ELSE IF g.cfg.AllowSudo
    THEN (IF callerLevel # "owner" /\ callerLevel # "admin"
          THEN Block("sudo requires admin") ELSE Allow)
    ELSE IF g.cfg.BlockSudo
    THEN (IF callerLevel # "owner" THEN Block("sudo disabled") ELSE Allow)
    ELSE Allow

\* checkCommandSafety
checkCommandSafety(g, command, callerLevel) ==
    IF command = <<>> THEN Allow
    ELSE IF ~SudoCheck(g, command, callerLevel).Allowed
    THEN SudoCheck(g, command, callerLevel)
    ELSE IF ~RebootCheck(g, command, callerLevel, 1).Allowed
    THEN RebootCheck(g, command, callerLevel, 1)
    ELSE PatternCheck(g, command, callerLevel, 1)

\* StripUser that leaves the user in.
StripUserKept(host) ==
    host

\* The host without its user: host[idx+1:] for the first "@".
StripUser(host) ==
    IF Index(host, "@") >= 0 THEN SubSeq(host, Index(host, "@") + 2, Len(host)) ELSE host

\* One entry of the allowlist allows the host (the body of the loop of
\* checkSSHHost).
HostEntryAllows(allowed, host) ==
    \/ allowed = <<"*">>
    \/ /\ HasPrefix(allowed, <<"*", ".">>)
       /\ \/ HasSuffix(host, SubSeq(allowed, 2, Len(allowed)))
          \/ host = SubSeq(allowed, 3, Len(allowed))
    \/ host = allowed

\* checkSSHHost
checkSSHHost(g, host) ==
    IF Len(g.cfg.SSHAllowedHosts) = 0 THEN Allow
    ELSE IF \E k \in 1..Len(g.cfg.SSHAllowedHosts) :
                HostEntryAllows(g.cfg.SSHAllowedHosts[k], StripUser(host))
    THEN Allow
    ELSE Block("ssh host")

\* extractSSHHost
extractSSHHost(s) ==
    IF Index(s, ":") > 0 THEN SubSeq(s, 1, Index(s, ":")) ELSE <<>>

\* filepath.IsAbs
IsAbs(path) ==
    path # <<>> /\ path[1] = "/"

\* filepath.Abs of a relative path without "." and ".." elements: the
\* working directory joined with it.
Abs(path) ==
    Cwd \o <<"/">> \o path

\* filepath.Match for patterns of plain characters, "*" and "?".
RECURSIVE Match(_, _)
Match(pattern, name) ==
    IF pattern = <<>> THEN name = <<>>
    ELSE IF pattern[1] = "*"
    THEN \E k \in 0..Len(name) :
            /\ \A j \in 1..k : name[j] # "/"
            /\ Match(Tail(pattern), SubSeq(name, k + 1, Len(name)))
    ELSE IF pattern[1] = "?"
    THEN name # <<>> /\ name[1] # "/" /\ Match(Tail(pattern), Tail(name))
    ELSE name # <<>> /\ name[1] = pattern[1] /\ Match(Tail(pattern), Tail(name))

\* The loop of checkPathSafety over the protected paths from entry k on.
RECURSIVE PathCheck(_, _, _, _, _)
PathCheck(g, absPath, callerLevel, toolName, k) ==
    IF k > Len(g.protectedPaths) THEN Allow
    ELSE IF \/ absPath = g.protectedPaths[k]
            \/ HasPrefix(absPath, g.protectedPaths[k] \o <<"/">>)
    THEN (IF toolName = "read_file" /\ callerLevel = "admin"
          THEN PathCheck(g, absPath, callerLevel, toolName, k + 1)
          ELSE Block("path protected"))
    ELSE IF Match(g.protectedPaths[k], absPath)
    THEN Block("path pattern")
    ELSE PathCheck(g, absPath, callerLevel, toolName, k + 1)

\* checkPathSafety
checkPathSafety(g, path, callerLevel, toolName) ==
    IF path = <<>> THEN Allow
    ELSE IF callerLevel = "owner" THEN Allow
    ELSE PathCheck(g, IF IsAbs(path) THEN path ELSE Abs(path), callerLevel, toolName, 1)

\* The host Check hands to checkSSHHost.
TargetHost(args) ==
    IF args.host # <<>> THEN args.host
    ELSE IF extractSSHHost(args.source) # <<>> THEN extractSSHHost(args.source)
    ELSE extractSSHHost(args.destination)

\* InList that looks at the first element only.
InListHead(list, x) ==
    list # <<>> /\ list[1] = x

\* x is an element of the list.
InList(list, x) ==
    \E k \in 1..Len(list) : list[k] = x

\* Steps 1 to 4 of ToolGuard.Check and its last return.
Checks(g, toolName, callerLevel, args) ==
    IF ~checkToolPermission(g, toolName, callerLevel).Allowed
    THEN checkToolPermission(g, toolName, callerLevel)
    ELSE IF toolName \in {"bash", "exec"}
            /\ ~checkCommandSafety(g, args.command, callerLevel).Allowed
    THEN checkCommandSafety(g, args.command, callerLevel)
    ELSE IF toolName \in {"ssh", "scp"} /\ ~checkSSHHost(g, TargetHost(args)).Allowed
    THEN checkSSHHost(g, TargetHost(args))
    ELSE IF toolName \in {"read_file", "write_file", "edit_file"}
            /\ ~checkPathSafety(g, args.path, callerLevel, toolName).Allowed
    THEN checkPathSafety(g, args.path, callerLevel, toolName)
    ELSE [Allowed |-> TRUE, Reason |-> "",
          RequiresConfirmation |-> InList(g.cfg.RequireConfirmation, toolName)]

\* ToolGuard.Check without its step 0: a tool of the auto-approve list is
\* checked like any other.
GuardCheckNoAutoApprove(g, toolName, callerLevel, args) ==
    IF ~g.cfg.Enabled THEN Allow
    ELSE Checks(g, toolName, callerLevel, args)

\* ToolGuard.Check
GuardCheck(g, toolName, callerLevel, args) ==
    IF ~g.cfg.Enabled THEN Allow
    ELSE IF InList(g.cfg.AutoApprove, toolName) THEN Allow
    ELSE Checks(g, toolName, callerLevel, args)

----------------------------------------------------------------------------
(* AgentRun: messages and the recovery from a context overflow *)

DefaultRunTimeoutSec == 600
DefaultLLMCallTimeoutSec == 300
reflectionInterval == 15
DefaultMaxCompactionAttempts == 3

\* chatMessage: the role, the content (a text, of which the model keeps a
\* name and the length), how much of the text a truncation has left
\* (0: all of it), the ids of the tool calls of an assistant message and
\* the tool_call_id of a tool message.
Msg(role, text, len) ==
    [Role |-> role, Text |-> text, Len |-> len, Cut |-> 0,
     ToolCalls |-> <<>>, ToolCallID |-> <<>>]

\* len("... [truncated]")
TruncSuffixLen == Len(<<".", ".", ".", " ", "[", "t", "r", "u", "n", "c", "a", "t", "e", "d", "]">>)

\* keepChars of truncateToolResults
KeepChars(maxLen) ==
    IF 1000 + TruncSuffixLen > maxLen THEN maxLen - TruncSuffixLen ELSE 1000

\* truncateToolResults: s[:keepChars] + truncSuffix for the content of the
\* tool messages longer than maxLen.
truncateToolResults(messages, maxLen) ==
    LET lim == IF maxLen <= 0 THEN 2000 ELSE maxLen
    IN  [i \in 1..Len(messages) |->
            IF messages[i].Role = "tool" /\ messages[i].Len > lim
            THEN [messages[i] EXCEPT !.Len = KeepChars(lim) + TruncSuffixLen,
                                     !.Cut = KeepChars(lim)]
            ELSE messages[i]]

\* hasOversizedToolResults
hasOversizedToolResults(messages, maxLen) ==
    \E i \in 1..Len(messages) : messages[i].Role = "tool" /\ messages[i].Len > maxLen

\* compactMessages
compactMessages(messages, keepRecent) ==
    IF Len(messages) <= keepRecent + 1 THEN messages
    ELSE IF messages[1].Role = "system"
    THEN (IF Len(Tail(messages)) <= keepRecent THEN messages
          ELSE <<messages[1]>> \o LastN(Tail(messages), keepRecent))
    ELSE IF Len(messages) <= keepRecent THEN messages
    ELSE LastN(messages, keepRecent)

\* keepRecent of the next compaction.
NextKeepRecent(keepRecent) ==
    IF keepRecent - 5 < 6 THEN 6 ELSE keepRecent - 5

----------------------------------------------------------------------------
(* The Assistant: state *)

NoRun == <<>>

\* The ToolExecutor before any context was set.
NoContext == [level |-> "none", from |-> "none", sess |-> "none"]

\* ToolGuard.Check was not called.
NotChecked == [called |-> FALSE, result |-> Allow]

\* No hot-reload of the guard and no Check next to it.
RIdle ==
    /\ guard = <<>>
    /\ upd = [pc |-> "idle"]
    /\ chk = [pc |-> "idle"]

\* Compose and maybeCompactSession are not called.
XIdle ==
    /\ prompt = [pc |-> "idle"]
    /\ sess = [pc |-> "idle"]

\* No AgentRun.
RunIdle ==
    /\ ag = [pc |-> "idle"]
    /\ env = [clock |-> 0, cancelled |-> FALSE]
    /\ interruptCh = <<>>
    /\ alog = [llm |-> <<>>, tools |-> <<>>, sent |-> <<>>]
    /\ ov = [pc |-> "idle"]

AIdle ==
    /\ RunIdle
    /\ XIdle

GIdle ==
    /\ gIn = <<>>
    /\ gOut = NotChecked
    /\ RIdle
    /\ AIdle

PInitVars ==
    /\ toolCtx = NoContext
    /\ toolLog = {}
    /\ workers = {}
    /\ history = [s \in Sessions |-> <<>>]
    /\ sent = {}
    /\ activeRuns = [s \in Sessions |-> NoRun]
    /\ asked = {}
    /\ everQueued = {}
    /\ evicted = {}
    /\ denied = {}

----------------------------------------------------------------------------
(* The queue driven through its API: SpecQueue *)

\* The next IncomingMessage of the channels.
NewMsg(s, f, c) ==
    [ids |-> <<nextId + 1>>, sess |-> s, from |-> f, content |-> c]

QContents == {<<"a">>, <<"b">>}

\* The log of Drain results after Drain(s) returned; viaTimer tells whether
\* the caller is the timer callback, which hands a non-empty result to onDrain.
Logged(s, viaTimer) ==
    IF Len(items[s]) = 0 THEN drains
    ELSE [drains EXCEPT ![s] = Append(drains[s], [msgs |-> DrainMsgs(s), onDrain |-> viaTimer])]

QInit ==
    /\ now = 0
    /\ items = [s \in Sessions |-> <<>>]
    /\ timer = [s \in Sessions |-> NilTimer]
    /\ cb = [s \in Sessions |-> 0]
    /\ processing = [s \in Sessions |-> FALSE]
    /\ nextId = 0
    /\ drains = [s \in Sessions |-> <<>>]
    /\ accepted = [s \in Sessions |-> <<>>]
    /\ cmIn = <<>>
    /\ cmOut = <<>>
    /\ PInitVars
    /\ GIdle

\* The clock advances while something waits on it (a pending entry ages, a
\* timer runs); idle time changes nothing.
Tick ==
    /\ now + TickMs <= MaxClock
    /\ \E s \in Sessions : items[s] # <<>> \/ (timer[s].set /\ ~timer[s].fired)
    /\ now' = now + TickMs
    /\ UNCHANGED <<items, timer, cb, processing, nextId, drains, accepted>>
    /\ UNCHANGED <<fvars, tvars>>
    /\ UNCHANGED pvars

\* A caller enqueues a new message.
QEnqueue(s, c) ==
    /\ nextId < MaxMsgs
    /\ nextId' = nextId + 1
    /\ Enqueue(s, NewMsg(s, "own", c))
    /\ UNCHANGED <<now, cb, processing, drains>>
    /\ UNCHANGED <<fvars, tvars>>
    /\ UNCHANGED pvars

\* The runtime fires the timer at or after its deadline and starts the
\* callback on its own goroutine.
TimerFire(s) ==
    /\ timer[s].set
    /\ ~timer[s].fired
    /\ now >= timer[s].deadline
    /\ timer' = [timer EXCEPT ![s].fired = TRUE]
    /\ cb' = [cb EXCEPT ![s] = cb[s] + 1]
    /\ UNCHANGED <<now, items, processing, nextId, drains, accepted>>
    /\ UNCHANGED <<fvars, tvars>>
    /\ UNCHANGED pvars

\* A fired callback runs: Drain, then onDrain when something was drained.
QTimerCallback(s) ==
    /\ cb[s] > 0
    /\ cb' = [cb EXCEPT ![s] = cb[s] - 1]
    /\ Drain(s)
    /\ drains' = Logged(s, TRUE)
    /\ UNCHANGED <<now, processing, nextId>>
    /\ UNCHANGED <<fvars, tvars>>
    /\ UNCHANGED pvars

\* A caller drains the session.
QDrain(s) ==
    /\ Drain(s)
    /\ drains' = Logged(s, FALSE)
    /\ UNCHANGED <<now, cb, processing, nextId>>
    /\ UNCHANGED <<fvars, tvars>>
    /\ UNCHANGED pvars

QNext ==
    \/ Tick
    \/ \E s \in Sessions, c \in QContents : QEnqueue(s, c)
    \/ \E s \in Sessions : TimerFire(s)
    \/ \E s \in Sessions : QTimerCallback(s)
    \/ \E s \in Sessions : QDrain(s)

SpecQueue == QInit /\ [][QNext]_vars

----------------------------------------------------------------------------
(* The Assistant: configuration and helpers *)

\* Access lists and default policy of the configuration.
Owners == {"own"}
AllowedUsers == {"usr"}
BlockedUsers == {"blk"}
DefaultPolicy == "ask"

\* AccessManager.Check: owners are allowed, blocked senders are denied, and
\* an unknown sender falls under the default policy; under "ask" it is
\* asked once and denied silently after it was marked as asked.
Check(msg) ==
    IF msg.from \in Owners \cup AllowedUsers THEN [allowed |-> TRUE, shouldAsk |-> FALSE]
    ELSE IF msg.from \in BlockedUsers THEN [allowed |-> FALSE, shouldAsk |-> FALSE]
    ELSE IF DefaultPolicy = "allow" THEN [allowed |-> TRUE, shouldAsk |-> FALSE]
    ELSE [allowed |-> FALSE, shouldAsk |-> DefaultPolicy = "ask" /\ msg.from \notin asked]

\* accessResult.Level of an allowed sender.
Level(from) ==
    IF from \in Owners THEN "owner" ELSE "user"

\* IsCommand: the content starts with a slash.
IsCommand(content) ==
    content # <<>> /\ content[1] = "/"

\* a.config.Trigger
Trigger == <<"a">>

\* IncomingMessage.IsGroup: the chat of session "grp" is a group.
IsGroup(s) ==
    s = "grp"

Fold(c) ==
    IF c = "A" THEN "a" ELSE IF c = "B" THEN "b" ELSE c

\* strings.EqualFold
EqualFold(x, y) ==
    /\ Len(x) = Len(y)
    /\ \A i \in 1..Len(x) : Fold(x[i]) = Fold(y[i])

\* Assistant.matchesTrigger
matchesTrigger(content, trigger, isGroup) ==
    IF trigger = <<>> THEN TRUE
    ELSE IF ~isGroup THEN TRUE
    ELSE /\ Len(TrimSpace(content)) >= Len(trigger)
         /\ EqualFold(SubSeq(TrimSpace(content), 1, Len(trigger)), trigger)

\* A goroutine entering handleMessage(msg).
Worker(msg) ==
    [msg |-> msg, pc |-> "access", cancelled |-> FALSE, held |-> FALSE, resp |-> "none"]

IdSet(msg) ==
    {msg.ids[i] : i \in 1..Len(msg.ids)}

\* DeferredRelease, without the defer: the flag stays as it is.
DeferredReleaseForgotten(s) ==
    UNCHANGED processing

\* The deferred a.messageQueue.SetProcessing(sessionID, false).
DeferredRelease(s) ==
    SetProcessing(s, FALSE)

----------------------------------------------------------------------------
(* The Assistant: the steps of handleMessage *)

\* messageLoop: a message arrives and is handled on its own goroutine.
Arrive(s, f, c) ==
    /\ nextId' = nextId + 1
    /\ workers' = workers \cup {Worker(NewMsg(s, f, c))}
    /\ UNCHANGED <<now, items, timer, cb, processing, drains, accepted>>
    /\ UNCHANGED <<history, sent, activeRuns, asked, everQueued, evicted, denied>>
    /\ UNCHANGED <<fvars, tvars>>

\* Where an allowed message goes after the access check.
AfterAccess(msg) ==
    IF IsCommand(msg.content) THEN "command" ELSE "check"

\* HandleAccess, answering a sender that is denied silently.
HandleAccessReplies(w) ==
    /\ w.pc = "access"
    /\ IF Check(w.msg).allowed
       THEN /\ workers' = (workers \ {w}) \cup {[w EXCEPT !.pc = AfterAccess(w.msg)]}
            /\ UNCHANGED <<denied, sent>>
       ELSE IF Check(w.msg).shouldAsk
       THEN /\ workers' = (workers \ {w}) \cup {[w EXCEPT !.pc = "notice"]}
            /\ UNCHANGED <<denied, sent>>
       ELSE /\ workers' = workers \ {w}
            /\ denied' = denied \cup IdSet(w.msg)
            /\ sent' = sent \cup {[ids |-> w.msg.ids, kind |-> "notice"]}
    /\ UNCHANGED <<history, activeRuns, asked, everQueued, evicted>>
    /\ UNCHANGED qvars
    /\ UNCHANGED <<fvars, tvars>>

\* Step 0: the access check.  A denied sender is dropped, with a notice to
\* come when it is to be asked.
HandleAccess(w) ==
    /\ w.pc = "access"
    /\ IF Check(w.msg).allowed
       THEN /\ workers' = (workers \ {w}) \cup {[w EXCEPT !.pc = AfterAccess(w.msg)]}
            /\ UNCHANGED denied
       ELSE IF Check(w.msg).shouldAsk
       THEN /\ workers' = (workers \ {w}) \cup {[w EXCEPT !.pc = "notice"]}
            /\ UNCHANGED denied
       ELSE /\ workers' = workers \ {w}
            /\ denied' = denied \cup IdSet(w.msg)
    /\ UNCHANGED <<history, sent, activeRuns, asked, everQueued, evicted>>
    /\ UNCHANGED qvars
    /\ UNCHANGED <<fvars, tvars>>

\* Policy "ask": the pending-access notice is sent and the sender marked.
SendNotice(w) ==
    /\ w.pc = "notice"
    /\ sent' = sent \cup {[ids |-> w.msg.ids, kind |-> "notice"]}
    /\ asked' = asked \cup {w.msg.from}
    /\ workers' = workers \ {w}
    /\ UNCHANGED <<history, activeRuns, everQueued, evicted, denied>>
    /\ UNCHANGED qvars
    /\ UNCHANGED <<fvars, tvars>>

\* The handlers after the cancel func stored for session s was called.
StoppedWorkers(s) ==
    {IF w.msg.sess = s /\ w.msg.ids = activeRuns[s] /\ w.pc \in {"run", "exit"}
     THEN [w EXCEPT !.cancelled = TRUE] ELSE w : w \in workers}

\* What executing the command of handler w does: the command is /stop, which
\* calls StopActiveRun for the session of the message.
CommandEffect(w) ==
    /\ activeRuns' = [activeRuns EXCEPT ![w.msg.sess] = NoRun]
    /\ workers' = StoppedWorkers(w.msg.sess) \ {w}

\* HandleCommand, looking at the queue first: the command of a busy session
\* is enqueued.
HandleCommandAfterQueue(w) ==
    /\ w.pc = "command"
    /\ IF IsProcessing(w.msg.sess)
       THEN /\ Enqueue(w.msg.sess, w.msg)
            /\ workers' = workers \ {w}
            /\ UNCHANGED <<sent, activeRuns>>
       ELSE /\ sent' = sent \cup {[ids |-> w.msg.ids, kind |-> "command"]}
            /\ CommandEffect(w)
            /\ UNCHANGED <<items, timer, accepted>>
    /\ UNCHANGED <<now, cb, processing, nextId, drains>>
    /\ UNCHANGED <<history, asked, everQueued, evicted, denied>>
    /\ UNCHANGED <<fvars, tvars>>

\* Step 1: a command that HandleCommand handles is executed and answered,
\* and the handler returns; one it does not handle goes on as a message.
HandleCommand(w) ==
    /\ w.pc = "command"
    /\ \E handled \in BOOLEAN :
          IF handled
          THEN /\ sent' = sent \cup {[ids |-> w.msg.ids, kind |-> "command"]}
               /\ CommandEffect(w)
          ELSE /\ workers' = (workers \ {w}) \cup {[w EXCEPT !.pc = "check"]}
               /\ UNCHANGED <<sent, activeRuns>>
    /\ UNCHANGED <<history, asked, everQueued, evicted, denied>>
    /\ UNCHANGED qvars
    /\ UNCHANGED <<fvars, tvars>>

\* Step 1b: IsProcessing(sessionID).
CheckProcessing(w) ==
    /\ w.pc = "check"
    /\ workers' = (workers \ {w}) \cup
                      {[w EXCEPT !.pc = IF IsProcessing(w.msg.sess) THEN "enqueue" ELSE "set"]}
    /\ UNCHANGED <<history, sent, activeRuns, asked, everQueued, evicted, denied>>
    /\ UNCHANGED qvars
    /\ UNCHANGED <<fvars, tvars>>

\* Step 1b, session busy: Enqueue(sessionID, msg) and return.
EnqueueBusy(w) ==
    /\ w.pc = "enqueue"
    /\ Enqueue(w.msg.sess, w.msg)
    /\ everQueued' = IF ~IsDuplicate(w.msg.sess, w.msg) /\ Len(w.msg.ids) = 1
                     THEN everQueued \cup {w.msg} ELSE everQueued
    /\ evicted' = IF ~IsDuplicate(w.msg.sess, w.msg) /\ Len(items[w.msg.sess]) >= maxPending
                  THEN evicted \cup IdSet(items[w.msg.sess][1].msg) ELSE evicted
    /\ workers' = workers \ {w}
    /\ UNCHANGED <<now, cb, processing, nextId, drains>>
    /\ UNCHANGED <<history, sent, activeRuns, asked, denied>>
    /\ UNCHANGED <<fvars, tvars>>

\* Step 1b, session idle: SetProcessing(sessionID, true).
MarkProcessing(w) ==
    /\ w.pc = "set"
    /\ SetProcessing(w.msg.sess, TRUE)
    /\ workers' = (workers \ {w}) \cup
                      {[w EXCEPT !.pc = "admit", !.held = processing'[w.msg.sess]]}
    /\ UNCHANGED <<now, items, timer, cb, nextId, drains, accepted>>
    /\ UNCHANGED <<history, sent, activeRuns, asked, everQueued, evicted, denied>>
    /\ UNCHANGED <<fvars, tvars>>

\* The context handleMessage sets on the ToolExecutor for message msg:
\* SetCallerContext(accessResult.Level, msg.From), SetSessionContext(sessionID).
CallerContext(msg) ==
    [level |-> Level(msg.from), from |-> msg.from, sess |-> msg.sess]

\* Admit with the caller context set before the input guard is asked.
AdmitContextFirst(w) ==
    /\ w.pc = "admit"
    /\ IF ~matchesTrigger(w.msg.content, Trigger, IsGroup(w.msg.sess))
       THEN /\ DeferredRelease(w.msg.sess)
            /\ workers' = workers \ {w}
            /\ UNCHANGED <<sent, toolCtx>>
       ELSE \E valid \in BOOLEAN :
              IF valid
              THEN /\ workers' = (workers \ {w}) \cup {[w EXCEPT !.pc = "register"]}
                   /\ toolCtx' = CallerContext(w.msg)
                   /\ UNCHANGED <<processing, sent>>
              ELSE /\ sent' = sent \cup {[ids |-> w.msg.ids, kind |-> "refusal"]}
                   /\ DeferredRelease(w.msg.sess)
                   /\ workers' = workers \ {w}
                   /\ toolCtx' = CallerContext(w.msg)
    /\ UNCHANGED <<now, items, timer, cb, nextId, drains, accepted>>
    /\ UNCHANGED <<history, activeRuns, asked, everQueued, evicted, denied>>
    /\ UNCHANGED <<fvars, toolLog>>

\* Steps 2-6: workspace, trigger, input guard and caller context.  A message
\* that misses the trigger returns; one the input guard rejects is refused
\* and returns; both release the processing flag on the way out.  For a
\* message that goes on, the caller and session context of the one
\* ToolExecutor are set (taken here as one step).
Admit(w) ==
    /\ w.pc = "admit"
    /\ IF ~matchesTrigger(w.msg.content, Trigger, IsGroup(w.msg.sess))
       THEN /\ DeferredRelease(w.msg.sess)
            /\ workers' = workers \ {w}
            /\ UNCHANGED <<sent, toolCtx>>
       ELSE \E valid \in BOOLEAN :
              IF valid
              THEN /\ workers' = (workers \ {w}) \cup {[w EXCEPT !.pc = "register"]}
                   /\ toolCtx' = CallerContext(w.msg)
                   /\ UNCHANGED <<processing, sent>>
              ELSE /\ sent' = sent \cup {[ids |-> w.msg.ids, kind |-> "refusal"]}
                   /\ DeferredRelease(w.msg.sess)
                   /\ workers' = workers \ {w}
                   /\ UNCHANGED toolCtx
    /\ UNCHANGED <<now, items, timer, cb, nextId, drains, accepted>>
    /\ UNCHANGED <<history, activeRuns, asked, everQueued, evicted, denied>>
    /\ UNCHANGED <<fvars, toolLog>>

\* executeAgent: the cancel func is stored under the run key.
Register(w) ==
    /\ w.pc = "register"
    /\ activeRuns' = [activeRuns EXCEPT ![w.msg.sess] = w.msg.ids]
    /\ workers' = (workers \ {w}) \cup {[w EXCEPT !.pc = "run"]}
    /\ UNCHANGED <<history, sent, asked, everQueued, evicted, denied>>
    /\ UNCHANGED qvars
    /\ UNCHANGED <<fvars, tvars>>

\* RunWithUsage returns: with a result or with an error; with an error when
\* the run context was cancelled before (LLM calls and tools return once
\* their context is cancelled).
AgentReturns(w) ==
    /\ w.pc = "run"
    /\ \E err \in BOOLEAN :
          /\ w.cancelled => err
          /\ workers' = (workers \ {w}) \cup
                            {[w EXCEPT !.pc = "exit", !.resp = IF err THEN "err" ELSE "ok"]}
    /\ UNCHANGED <<history, sent, activeRuns, asked, everQueued, evicted, denied>>
    /\ UNCHANGED qvars
    /\ UNCHANGED <<fvars, tvars>>

\* The agent executes a tool call of its run: ToolExecutor.Execute checks and
\* routes it with the context the executor holds at that time.
ToolCall(w) ==
    /\ w.pc = "run"
    /\ toolLog' = toolLog \cup {[ids |-> w.msg.ids, from |-> w.msg.from,
                                 sess |-> w.msg.sess, ctx |-> toolCtx]}
    /\ UNCHANGED <<toolCtx, fvars>>
    /\ UNCHANGED pvars
    /\ UNCHANGED qvars

\* executeAgent returns: an error is "Agent stopped." when the run context
\* is cancelled and an error reply otherwise; the deferred function deletes
\* the run key.
ExitRun(w) ==
    /\ w.pc = "exit"
    /\ activeRuns' = [activeRuns EXCEPT ![w.msg.sess] = NoRun]
    /\ workers' = (workers \ {w}) \cup
                      {[w EXCEPT !.pc = "finish",
                                 !.resp = IF w.resp = "err"
                                          THEN (IF w.cancelled THEN "stopped" ELSE "error")
                                          ELSE "ok"]}
    /\ UNCHANGED <<history, sent, asked, everQueued, evicted, denied>>
    /\ UNCHANGED qvars
    /\ UNCHANGED <<fvars, tvars>>

\* Steps 9-11 and the return: the entry is appended to the history, the
\* reply sent and the processing flag released.
Finish(w) ==
    /\ w.pc = "finish"
    /\ history' = [history EXCEPT ![w.msg.sess] = Append(@, [ids |-> w.msg.ids, resp |-> w.resp])]
    /\ sent' = sent \cup {[ids |-> w.msg.ids, kind |-> w.resp]}
    /\ DeferredRelease(w.msg.sess)
    /\ workers' = workers \ {w}
    /\ UNCHANGED <<now, items, timer, cb, nextId, drains, accepted>>
    /\ UNCHANGED <<activeRuns, asked, everQueued, evicted, denied>>
    /\ UNCHANGED <<fvars, tvars>>

\* StopActiveRun(workspaceID, sessionID) for a key that has an entry: the
\* entry is deleted and its cancel func called.
StopActiveRun(s) ==
    /\ activeRuns[s] # NoRun
    /\ activeRuns' = [activeRuns EXCEPT ![s] = NoRun]
    /\ workers' = {IF w.msg.sess = s /\ w.msg.ids = activeRuns[s] /\ w.pc \in {"run", "exit"}
                    THEN [w EXCEPT !.cancelled = TRUE] ELSE w : w \in workers}
    /\ UNCHANGED <<history, sent, asked, everQueued, evicted, denied>>
    /\ UNCHANGED qvars
    /\ UNCHANGED <<fvars, tvars>>

\* A fired timer callback runs: Drain, then handleDrainedMessages on a fresh
\* goroutine when something was drained.
DrainCallback(s) ==
    /\ cb[s] > 0
    /\ cb' = [cb EXCEPT ![s] = cb[s] - 1]
    /\ Drain(s)
    /\ workers' = workers \cup {Worker(HandleDrained(DrainMsgs(s))[i]) :
                                    i \in 1..Len(HandleDrained(DrainMsgs(s)))}
    /\ UNCHANGED <<now, processing, nextId, drains>>
    /\ UNCHANGED <<history, sent, activeRuns, asked, everQueued, evicted, denied>>
    /\ UNCHANGED <<fvars, tvars>>

----------------------------------------------------------------------------
(* The Assistant handling messages of allowed senders: Spec *)

MaxArrivals == 3
MaxTicks == 2

\* Both contents start with the trigger, one of them in upper case.
Contents == {<<"a">>, <<"A">>}

\* The clock advances while something waits on it.
PTick ==
    /\ now + TickMs <= MaxTicks * TickMs
    /\ \E s \in Sessions : items[s] # <<>> \/ (timer[s].set /\ ~timer[s].fired)
    /\ now' = now + TickMs
    /\ UNCHANGED <<items, timer, cb, processing, nextId, drains, accepted>>
    /\ UNCHANGED <<fvars, tvars>>
    /\ UNCHANGED pvars

Init ==
    QInit

Next ==
    \/ \E s \in Sessions, c \in Contents : nextId < MaxArrivals /\ Arrive(s, "own", c)
    \/ \E w \in workers : HandleAccess(w)
    \/ \E w \in workers : CheckProcessing(w)
    \/ \E w \in workers : EnqueueBusy(w)
    \/ \E w \in workers : MarkProcessing(w)
    \/ \E w \in workers : Admit(w)
    \/ \E w \in workers : Register(w)
    \/ \E w \in workers : AgentReturns(w)
    \/ \E w \in workers : ExitRun(w)
    \/ \E w \in workers : Finish(w)
    \/ \E s \in Sessions : StopActiveRun(s)
    \/ \E s \in Sessions : TimerFire(s)
    \/ \E s \in Sessions : DrainCallback(s)
    \/ PTick

Spec == Init /\ [][Next]_vars

----------------------------------------------------------------------------
(* The Assistant handling messages and commands of all senders: SpecAccess *)

\* An owner, a blocked sender and a sender the lists do not name.
Senders == {"own", "blk", "unk"}

\* A message and a command.
AContents == {<<"a">>, <<"/", "s">>}

ANext ==
    \/ \E f \in Senders, c \in AContents : nextId < MaxArrivals /\ Arrive("dm", f, c)
    \/ \E w \in workers : HandleAccess(w)
    \/ \E w \in workers : SendNotice(w)
    \/ \E w \in workers : HandleCommand(w)
    \/ \E w \in workers : CheckProcessing(w)
    \/ \E w \in workers : EnqueueBusy(w)
    \/ \E w \in workers : MarkProcessing(w)
    \/ \E w \in workers : Admit(w)
    \/ \E w \in workers : Register(w)
    \/ \E w \in workers : AgentReturns(w)
    \/ \E w \in workers : ExitRun(w)
    \/ \E w \in workers : Finish(w)
    \/ \E s \in Sessions : StopActiveRun(s)
    \/ \E s \in Sessions : TimerFire(s)
    \/ \E s \in Sessions : DrainCallback(s)
    \/ PTick

SpecAccess == Init /\ [][ANext]_vars

----------------------------------------------------------------------------
(* The Assistant with runs that call tools, in two chats: SpecTools *)

MaxToolMsgs == 2

\* The owner writes in the 1-to-1 chat, a user in the group.
TNext ==
    \/ \E a \in {<<"dm", "own">>, <<"grp", "usr">>} :
          nextId < MaxToolMsgs /\ Arrive(a[1], a[2], <<"a">>)
    \/ \E w \in workers : HandleAccess(w)
    \/ \E w \in workers : CheckProcessing(w)
    \/ \E w \in workers : EnqueueBusy(w)
    \/ \E w \in workers : MarkProcessing(w)
    \/ \E w \in workers : Admit(w)
    \/ \E w \in workers : Register(w)
    \/ \E w \in workers : ToolCall(w)
    \/ \E w \in workers : AgentReturns(w)
    \/ \E w \in workers : ExitRun(w)
    \/ \E w \in workers : Finish(w)
    \/ \E s \in Sessions : StopActiveRun(s)
    \/ \E s \in Sessions : TimerFire(s)
    \/ \E s \in Sessions : DrainCallback(s)
    \/ PTick

SpecTools == Init /\ [][TNext]_vars

----------------------------------------------------------------------------
(* Claims about the Assistant *)

\* The workers of session s inside executeAgent.
Running(s) ==
    {w \in workers : w.msg.sess = s /\ w.pc \in {"register", "run", "exit"}}

\* C1: at most one agent run per session is in progress at any time.
C1_AtMostOneRun ==
    \A s \in Sessions : Cardinality(Running(s)) <= 1

\* The ids of the messages of the history of session s, in order.
RECURSIVE HistoryIds(_)
HistoryIds(h) ==
    IF h = <<>> THEN <<>> ELSE h[1].ids \o HistoryIds(Tail(h))

\* C2: the messages of a session are run and appended to its history in
\* arrival order: no message is inside the agent while a message that
\* arrived earlier is still pending in the queue, and the history lists the
\* messages by ascending arrival.
C2_ArrivalOrder ==
    \A s \in Sessions :
        /\ \A w \in Running(s) : \A k \in 1..Len(items[s]) :
              \A i \in IdSet(items[s][k].msg), j \in IdSet(w.msg) : j < i
        /\ \A i, j \in 1..Len(HistoryIds(history[s])) :
              i < j => HistoryIds(history[s])[i] < HistoryIds(history[s])[j]

\* The handler of a run that StopActiveRun cancelled returns in this step.
C3_StopStep ==
    \A w \in workers :
        (w.pc = "finish" /\ w.cancelled /\ Finish(w)) =>
            /\ w.resp = "stopped"
            /\ ~processing'[w.msg.sess]
            /\ activeRuns'[w.msg.sess] = NoRun

\* C3: a run that StopActiveRun cancelled returns with the reply "Agent
\* stopped.", and when its handler returns the processing flag of the session
\* is false and activeRuns holds no entry for it.
C3_Stop ==
    [][C3_StopStep]_vars

\* A handler that has set the flag returns in this step.
ReturnsHolding(w) ==
    /\ w.pc \in {"admit", "finish"}
    /\ w.held
    /\ w \notin workers'
    /\ \A v \in workers' : v.msg # w.msg

\* The flag as a handler past SetProcessing(true) sees it in this step.
C4_FlagStep ==
    \A w \in workers :
        /\ (w.pc = "admit" /\ Admit(w) /\ w \notin workers') => w.held
        /\ w.pc \in {"register", "run", "exit", "finish"} => w.held
        /\ ReturnsHolding(w) => ~processing'[w.msg.sess]

\* C4: a handler is past SetProcessing(true), and saw the flag set by it,
\* before it starts the agent run; on every return after that (trigger
\* mismatch, input rejected, agent error, cancellation, completion) the
\* flag is false.
C4_Flag ==
    [][C4_FlagStep]_vars

\* An original message as handleMessage would take it by itself: it passes
\* the trigger of its chat.
PassesTrigger(m) ==
    matchesTrigger(m.content, Trigger, IsGroup(m.sess))

\* Where message id i of session s may be: pending, in a goroutine
\* handling it, in the history, or refused by the input guard.
Accounted(i, s) ==
    \/ \E k \in 1..Len(items[s]) : i \in IdSet(items[s][k].msg)
    \/ \E w \in workers : w.msg.sess = s /\ i \in IdSet(w.msg)
    \/ \E k \in 1..Len(history[s]) : i \in {history[s][k].ids[n] : n \in 1..Len(history[s][k].ids)}
    \/ \E r \in sent : r.kind = "refusal" /\ i \in {r.ids[n] : n \in 1..Len(r.ids)}

\* Message m, or a message of the same content that Enqueue took it for a
\* duplicate of, is accounted for.
ContentAccounted(m) ==
    \E d \in everQueued :
        /\ d.sess = m.sess
        /\ d.content = m.content
        /\ Accounted(d.ids[1], d.sess)

\* C9: a message accepted into the queue and not evicted by the cap is never
\* lost: until it is part of the user content of an agent run it is pending
\* or in the hands of a handler.
C9_NoLoss ==
    \A m \in everQueued :
        (PassesTrigger(m) /\ m.ids[1] \notin evicted) => ContentAccounted(m)

\* All handlers returned with the flags released, after the input guard
\* refused a message, a run was stopped and a run failed.
C4_Witness ==
    /\ workers = {}
    /\ \A s \in Sessions : ~processing[s]
    /\ \E r \in sent : r.kind = "refusal"
    /\ \E r \in sent : r.kind = "stopped"
    /\ \E r \in sent : r.kind = "error"

\* What a message that was denied silently has left behind: nothing.
NoTraceOfDenied ==
    \A i \in denied :
        /\ \A r \in sent : i \notin {r.ids[n] : n \in 1..Len(r.ids)}
        /\ \A s \in Sessions : ~Accounted(i, s)

\* The handler of a message whose sender is denied silently returns in this
\* step.
SilentDenyStep ==
    \A w \in workers :
        (/\ w.pc = "access"
         /\ ~Check(w.msg).allowed
         /\ ~Check(w.msg).shouldAsk
         /\ HandleAccess(w)) =>
            /\ workers' = workers \ {w}
            /\ UNCHANGED <<sent, items, timer, processing, activeRuns, history, asked>>

\* C10: the handler of a message whose sender is denied silently sends
\* nothing, executes no command, enqueues nothing, sets no processing flag
\* and starts no agent run: it returns at the access check, and the message
\* is never seen again.
C10_SilentDeny ==
    []NoTraceOfDenied /\ [][SilentDenyStep]_vars

\* A message of a sender that had been asked before was denied silently
\* while an owner's message was in the agent.
C10_Witness ==
    /\ denied # {}
    /\ asked = {"unk"}
    /\ \E s \in Sessions : processing[s] /\ activeRuns[s] # NoRun

\* The pending-access notices sent so far.
Notices ==
    {r \in sent : r.kind = "notice"}

\* C11: under policy ask the unknown sender receives the pending-access
\* notice at most once, whatever the interleaving of the handlers of its
\* messages.
C11_AskOnce ==
    Cardinality(Notices) <= 1

\* The ids of the commands executed and answered so far.
CommandIds ==
    UNION {IdSet(r) : r \in {x \in sent : x.kind = "command"}}

\* An executed command is nowhere in the pipeline: not pending, not with a
\* handler, not in the history.
CommandLeavesNoTrace ==
    \A i \in CommandIds : \A s \in Sessions : ~Accounted(i, s)

\* A handler at the command step does not wait for the session.
CommandNeverWaits ==
    \A w \in workers : w.pc = "command" => ENABLED HandleCommand(w)

\* The handler of a command executes and answers it in this step: the flag,
\* the queue and the history stay as they are and no handler enters the
\* agent.
CommandStep ==
    \A w \in workers :
        (/\ w.pc = "command"
         /\ HandleCommand(w)
         /\ \A v \in workers' : v.msg # w.msg) =>
            /\ [ids |-> w.msg.ids, kind |-> "command"] \in sent'
            /\ UNCHANGED <<processing, items, timer, history>>
            /\ \A v \in workers' : \E u \in workers : u.msg = v.msg /\ u.pc = v.pc

C13_CallerContext ==
    \A c \in toolLog :
        c.ctx = [level |-> Level(c.from), from |-> c.from, sess |-> c.sess]

----------------------------------------------------------------------------
(* CombineMessages and handleDrainedMessages on their own: SpecCombine *)

MaxBatch == 3

CContents == {<<"a">>, <<" ", "b", " ">>, <<"c", "d", "\n">>, <<>>}

CMsgs == {[ids |-> <<1>>, sess |-> "dm", from |-> "own", content |-> c] : c \in CContents}

NotCalled == "none"

CInit ==
    /\ now = 0
    /\ items = [s \in Sessions |-> <<>>]
    /\ timer = [s \in Sessions |-> NilTimer]
    /\ cb = [s \in Sessions |-> 0]
    /\ processing = [s \in Sessions |-> FALSE]
    /\ nextId = 0
    /\ drains = [s \in Sessions |-> <<>>]
    /\ accepted = [s \in Sessions |-> <<>>]
    /\ cmIn \in UNION {[1..n -> CMsgs] : n \in 0..MaxBatch}
    /\ cmOut = [combined |-> NotCalled, handled |-> NotCalled]
    /\ PInitVars
    /\ GIdle

CallCombine ==
    /\ cmOut.combined = NotCalled
    /\ cmOut' = [cmOut EXCEPT !.combined = CombineMessages(cmIn)]
    /\ UNCHANGED <<cmIn, now, items, timer, cb, processing, nextId, drains, accepted>>
    /\ UNCHANGED <<pvars, tvars, gvars>>

CallHandleDrained ==
    /\ cmOut.handled = NotCalled
    /\ cmOut' = [cmOut EXCEPT !.handled = HandleDrained(cmIn)]
    /\ UNCHANGED <<cmIn, now, items, timer, cb, processing, nextId, drains, accepted>>
    /\ UNCHANGED <<pvars, tvars, gvars>>

CNext ==
    \/ CallCombine
    \/ CallHandleDrained

SpecCombine == CInit /\ [][CNext]_vars

\* The lines of a string: its pieces between newlines.
RECURSIVE Lines(_)
Lines(s) ==
    IF \E i \in 1..Len(s) : s[i] = "\n"
    THEN LET k == CHOOSE i \in 1..Len(s) : s[i] = "\n" /\ \A j \in 1..(i - 1) : s[j] # "\n"
         IN <<SubSeq(s, 1, k - 1)>> \o Lines(SubSeq(s, k + 1, Len(s)))
    ELSE <<s>>

BusyLine ==
    <<"[", "M", "u", "l", "t", "i", "p", "l", "e", " ", "m", "e", "s", "s", "a", "g", "e", "s", " ",
      "r", "e", "c", "e", "i", "v", "e", "d", " ", "w", "h", "i", "l", "e", " ",
      "b", "u", "s", "y", "]">>

\* The text of message m as it stands on its line: without the white space
\* around it.
Shown(m) ==
    LET inner == {<<i, j>> \in (1..Len(m.content)) \X (1..Len(m.content)) :
                     /\ i <= j
                     /\ ~IsSpace(m.content[i]) /\ ~IsSpace(m.content[j])
                     /\ \A k \in 1..Len(m.content) : (k < i \/ k > j) => IsSpace(m.content[k])}
    IN IF inner = {} THEN <<>>
       ELSE LET p == CHOOSE x \in inner : TRUE IN SubSeq(m.content, p[1], p[2])

\* C8: CombineMessages returns "" for no message, the content unchanged for
\* one message, and for n > 1 messages the line "[Multiple messages received
\* while busy]" followed by n lines, line i being "i. " and the text of
\* message i; handleDrainedMessages hands a non-empty batch to handleMessage
\* as one message with that content.
C8_Combine ==
    /\ cmOut.combined # NotCalled =>
          /\ Len(cmIn) = 0 => cmOut.combined = <<>>
          /\ Len(cmIn) = 1 => cmOut.combined = cmIn[1].content
          /\ Len(cmIn) > 1 =>
                /\ Len(Lines(cmOut.combined)) = Len(cmIn) + 1
                /\ Lines(cmOut.combined)[1] = BusyLine
                /\ \A i \in 1..Len(cmIn) :
                       Lines(cmOut.combined)[i + 1] = <<Digit(i), ".", " ">> \o Shown(cmIn[i])
    /\ (cmOut.handled # NotCalled /\ Len(cmIn) > 0) =>
          /\ Len(cmOut.handled) = 1
          /\ cmOut.handled[1].content = CombineMessages(cmIn)
          /\ cmOut.handled[1].sess = cmIn[1].sess

\* A batch of three messages, one of them with white space around its text,
\* was combined and handed on.
C8_Witness ==
    /\ Len(cmIn) = 3
    /\ cmIn[2].content = <<" ", "b", " ">>
    /\ cmOut.combined # NotCalled
    /\ cmOut.handled # NotCalled

----------------------------------------------------------------------------
(* ToolGuard.Check on its own: SpecGuard *)

AccessLevels == {"owner", "admin", "user", "blocked"}

\* Some of the tool permissions of DefaultToolGuardConfig.
DefaultToolPermissions ==
    [t \in {"bash", "ssh", "scp", "exec", "write_file", "edit_file", "read_file", "web_search"} |->
        CASE t \in {"bash", "ssh", "scp"} -> "owner"
          [] t \in {"exec", "write_file", "edit_file"} -> "admin"
          [] OTHER -> "user"]

\* Tool permissions of a configuration that opens the system tools.
OpenToolPermissions ==
    [t \in {"bash", "exec", "ssh", "write_file"} |->
        IF t = "ssh" THEN "public" ELSE "user"]

\* The fields of the configurations that every check reads.
BaseConfigs ==
    [Enabled : BOOLEAN,
     AutoApprove : {<<>>, <<"bash", "scp", "edit_file">>},
     RequireConfirmation : {<<>>, <<"bash", "exec", "ssh", "write_file">>},
     ToolPermissions : {DefaultToolPermissions, OpenToolPermissions}]

\* The configuration with the fields of base and of rest.
Config(base, rest) ==
    [f \in DOMAIN base \cup DOMAIN rest |-> IF f \in DOMAIN base THEN base[f] ELSE rest[f]]

\* The fields of DefaultToolGuardConfig next to those of BaseConfigs.
DefaultRest ==
    [AllowDestructive |-> FALSE, AllowSudo |-> FALSE, AllowReboot |-> FALSE,
     BlockSudo |-> TRUE, DangerousCommands |-> <<>>, ProtectedPaths |-> <<>>,
     SSHAllowedHosts |-> <<>>]

NoArgs ==
    [command |-> <<>>, host |-> <<>>, source |-> <<>>, destination |-> <<>>, path |-> <<>>]

\* Commands: none, harmless, with sudo, two that match a default pattern,
\* one with a reboot keyword, one that matches the custom pattern, and one
\* with sudo that matches a default pattern.
Commands ==
    { <<>>,
      <<"l", "s">>,
      <<"s", "u", "d", "o", " ", "l", "s">>,
      <<"r", "m", " ", "-", "r", "f", " ", "/">>,
      <<"M", "K", "F", "S">>,
      <<"r", "e", "b", "o", "o", "t">>,
      <<"c", "u", "r", "l", " ", "x">>,
      <<"s", "u", "d", "o", " ", "r", "m", " ", "/">> }

\* The lists of custom patterns: none, or the pattern "curl".
CustomPatterns == {<<>>, << <<"c", "u", "r", "l">> >>}

\* A call of bash or exec.
CommandInputs ==
    \E b \in BaseConfigs, d \in BOOLEAN, su \in BOOLEAN, bs \in BOOLEAN, rb \in BOOLEAN,
       dc \in CustomPatterns, t \in {"bash", "exec"}, l \in AccessLevels, c \in Commands :
        gIn = [cfg |-> Config(b, [DefaultRest EXCEPT !.AllowDestructive = d, !.AllowSudo = su,
                                                     !.BlockSudo = bs, !.AllowReboot = rb,
                                                     !.DangerousCommands = dc]),
               toolName |-> t, callerLevel |-> l, args |-> [NoArgs EXCEPT !.command = c]]

\* The allowlists of hosts: none, everything, one host, one domain.
HostLists ==
    { <<>>,
      << <<"*">> >>,
      << <<"h", ".", "x">> >>,
      << <<"*", ".", "x">>, <<"b", ".", "y">> >> }

\* Arguments of ssh and scp: a host (none, plain, with a user, the bare
\* domain, one outside), or a source or destination to take the host from.
HostArgs ==
    {[NoArgs EXCEPT !.host = h] :
        h \in {<<>>, <<"h", ".", "x">>, <<"u", "@", "h", ".", "x">>, <<"u", "@", "a", ".", "x">>,
               <<"x">>, <<"c", ".", "y">>}}
        \cup {[NoArgs EXCEPT !.source = <<"u", "@", "a", ".", "x", ":", "/", "f">>],
              [NoArgs EXCEPT !.source = <<"/", "f">>, !.destination = <<"c", ".", "y", ":", "/", "f">>]}

\* A call of ssh or scp.
HostInputs ==
    \E b \in BaseConfigs, hl \in HostLists, t \in {"ssh", "scp"}, l \in AccessLevels,
       a \in HostArgs :
        gIn = [cfg |-> Config(b, [DefaultRest EXCEPT !.SSHAllowedHosts = hl]),
               toolName |-> t, callerLevel |-> l, args |-> a]

\* The protected paths: the defaults, or a directory and a glob pattern.
PathLists ==
    { <<>>,
      << <<"/", "s">>, <<"/", "k", "/", "*">> >> }

\* Paths: none, a default protected file, a file under a default protected
\* directory, the protected .env of the working directory, an unprotected
\* file, and a file under each entry of the other list.
Paths ==
    { <<>>,
      <<"/", "e", "t", "c", "/", "s", "h", "a", "d", "o", "w">>,
      <<"/", "h", "/", ".", "s", "s", "h", "/", "i", "d">>,
      <<".", "e", "n", "v">>,
      <<"/", "w", "/", "f">>,
      <<"/", "s", "/", "a">>,
      <<"/", "k", "/", "b">> }

\* A call of a file tool.
PathInputs ==
    \E b \in BaseConfigs, pl \in PathLists, t \in {"read_file", "write_file", "edit_file"},
       l \in AccessLevels, p \in Paths :
        gIn = [cfg |-> Config(b, [DefaultRest EXCEPT !.ProtectedPaths = pl]),
               toolName |-> t, callerLevel |-> l, args |-> [NoArgs EXCEPT !.path = p]]

\* A call of another tool: one with a configured permission, one without.
OtherInputs ==
    \E b \in BaseConfigs, t \in {"web_search", "my_tool"}, l \in AccessLevels :
        gIn = [cfg |-> Config(b, DefaultRest), toolName |-> t, callerLevel |-> l,
               args |-> NoArgs]

\* The configuration of the guard and the call to check.
GInputs ==
    CommandInputs \/ HostInputs \/ PathInputs \/ OtherInputs

GInit ==
    /\ now = 0
    /\ items = [s \in Sessions |-> <<>>]
    /\ timer = [s \in Sessions |-> NilTimer]
    /\ cb = [s \in Sessions |-> 0]
    /\ processing = [s \in Sessions |-> FALSE]
    /\ nextId = 0
    /\ drains = [s \in Sessions |-> <<>>]
    /\ accepted = [s \in Sessions |-> <<>>]
    /\ cmIn = <<>>
    /\ cmOut = <<>>
    /\ PInitVars
    /\ GInputs
    /\ gOut = NotChecked
    /\ RIdle
    /\ AIdle

\* The guard of the configuration gIn.cfg checks the call.
CallCheck ==
    /\ ~gOut.called
    /\ gOut' = [called |-> TRUE,
                result |-> GuardCheck(NewToolGuard(gIn.cfg), gIn.toolName,
                                      gIn.callerLevel, gIn.args)]
    /\ UNCHANGED <<gIn, cvars, tvars, rvars, avars>>
    /\ UNCHANGED pvars
    /\ UNCHANGED qvars

GNext ==
    CallCheck

SpecGuard == GInit /\ [][GNext]_vars

----------------------------------------------------------------------------
(* ToolGuard.Check next to UpdateConfig: SpecReload *)

\* The configurations before and after the hot-reload: enabled, nothing
\* auto-approved, with either set of tool permissions, allow_destructive
\* on or off, and with or without the custom pattern.
ReloadConfigs ==
    {Config([Enabled |-> TRUE, AutoApprove |-> <<>>, RequireConfirmation |-> <<>>,
             ToolPermissions |-> tp],
            [DefaultRest EXCEPT !.AllowDestructive = d, !.DangerousCommands = dc]) :
        tp \in {DefaultToolPermissions, OpenToolPermissions}, d \in BOOLEAN,
        dc \in CustomPatterns}

\* The commands of the calls checked during the reload.
ReloadCommands ==
    { <<"l", "s">>,
      <<"r", "m", " ", "-", "r", "f", " ", "/">>,
      <<"c", "u", "r", "l", " ", "x">> }

RInit ==
    /\ now = 0
    /\ items = [s \in Sessions |-> <<>>]
    /\ timer = [s \in Sessions |-> NilTimer]
    /\ cb = [s \in Sessions |-> 0]
    /\ processing = [s \in Sessions |-> FALSE]
    /\ nextId = 0
    /\ drains = [s \in Sessions |-> <<>>]
    /\ accepted = [s \in Sessions |-> <<>>]
    /\ cmIn = <<>>
    /\ cmOut = <<>>
    /\ PInitVars
    /\ gIn = <<>>
    /\ gOut = NotChecked
    /\ AIdle
    /\ \E old \in ReloadConfigs, new \in ReloadConfigs, l \in {"owner", "user"},
          c \in ReloadCommands :
          /\ guard = NewToolGuard(old)
          /\ upd = [pc |-> "start", old |-> old, cfg |-> new, i |-> 1]
          /\ chk = [pc |-> "start", toolName |-> "bash", callerLevel |-> l,
                    args |-> [NoArgs EXCEPT !.command = c],
                    requiresConfirmation |-> FALSE, result |-> Allow]

\* UpdateConfig: g.mu.Lock(); g.cfg = cfg. Check takes no lock, so the lock
\* keeps nothing out.
UpdSetCfg ==
    /\ upd.pc = "start"
    /\ guard' = [guard EXCEPT !.cfg = upd.cfg]
    /\ upd' = [upd EXCEPT !.pc = "cfg"]
    /\ UNCHANGED <<chk, gIn, gOut, cvars, tvars, pvars, qvars, avars>>

\* UpdateConfig: g.dangerousPatterns = nil; g.defaultPatternCount = nil
UpdClear ==
    /\ upd.pc = "cfg"
    /\ guard' = [guard EXCEPT !.dangerousPatterns = <<>>, !.defaultPatternCount = <<>>]
    /\ upd' = [upd EXCEPT !.pc = "compile", !.i = 1]
    /\ UNCHANGED <<chk, gIn, gOut, cvars, tvars, pvars, qvars, avars>>

\* One iteration of the loops of compileDangerousPatterns: pattern i is
\* compiled and appended.
UpdCompile ==
    /\ upd.pc = "compile"
    /\ upd.i <= Len(compileDangerousPatterns(guard.cfg).dangerousPatterns)
    /\ guard' = [guard EXCEPT
          !.dangerousPatterns =
              Append(@, compileDangerousPatterns(guard.cfg).dangerousPatterns[upd.i]),
          !.defaultPatternCount =
              Append(@, compileDangerousPatterns(guard.cfg).defaultPatternCount[upd.i])]
    /\ upd' = [upd EXCEPT !.i = @ + 1]
    /\ UNCHANGED <<chk, gIn, gOut, cvars, tvars, pvars, qvars, avars>>

\* UpdateConfig: g.initProtectedPaths() after the last pattern, and the
\* deferred g.mu.Unlock().
UpdPaths ==
    /\ upd.pc = "compile"
    /\ upd.i > Len(compileDangerousPatterns(guard.cfg).dangerousPatterns)
    /\ guard' = [guard EXCEPT !.protectedPaths = initProtectedPaths(guard.cfg)]
    /\ upd' = [upd EXCEPT !.pc = "done"]
    /\ UNCHANGED <<chk, gIn, gOut, cvars, tvars, pvars, qvars, avars>>

\* Check up to its step 1, reading g.cfg: the enabled test, the
\* auto-approve and require-confirmation lists, and checkToolPermission.
ChkBegin ==
    /\ chk.pc = "start"
    /\ chk' =
          IF ~guard.cfg.Enabled \/ InList(guard.cfg.AutoApprove, chk.toolName)
          THEN [chk EXCEPT !.pc = "returned", !.result = Allow]
          ELSE IF ~checkToolPermission(guard, chk.toolName, chk.callerLevel).Allowed
          THEN [chk EXCEPT !.pc = "returned",
                           !.result = checkToolPermission(guard, chk.toolName, chk.callerLevel)]
          ELSE [chk EXCEPT !.pc = "command",
                           !.requiresConfirmation =
                               InList(guard.cfg.RequireConfirmation, chk.toolName)]
    /\ UNCHANGED <<guard, upd, gIn, gOut, cvars, tvars, pvars, qvars, avars>>

\* Check from its step 2 on for bash: checkCommandSafety, reading g.cfg and
\* g.dangerousPatterns as they are now, and the last return.
ChkCommand ==
    /\ chk.pc = "command"
    /\ chk' =
          IF ~checkCommandSafety(guard, chk.args.command, chk.callerLevel).Allowed
          THEN [chk EXCEPT !.pc = "returned",
                           !.result = checkCommandSafety(guard, chk.args.command,
                                                         chk.callerLevel)]
          ELSE [chk EXCEPT !.pc = "returned",
                           !.result = [Allowed |-> TRUE, Reason |-> "",
                                       RequiresConfirmation |-> chk.requiresConfirmation]]
    /\ UNCHANGED <<guard, upd, gIn, gOut, cvars, tvars, pvars, qvars, avars>>

RNext ==
    \/ UpdSetCfg
    \/ UpdClear
    \/ UpdCompile
    \/ UpdPaths
    \/ ChkBegin
    \/ ChkCommand

SpecReload == RInit /\ [][RNext]_vars

----------------------------------------------------------------------------
(* Claims about the ToolGuard *)

\* The tool of the call is in the auto_approve list of the configuration.
AutoApproved ==
    \E k \in DOMAIN gIn.cfg.AutoApprove : gIn.cfg.AutoApprove[k] = gIn.toolName

\* C14: ToolGuard.Check allows a tool of the auto_approve list whatever the
\* level of the caller and the arguments are, without any of the permission,
\* command, host and path checks, and does not ask for confirmation.
C14_AutoApprove ==
    (gOut.called /\ AutoApproved) =>
        /\ gOut.result.Allowed
        /\ ~gOut.result.RequiresConfirmation

\* A blocked caller ran "rm -rf /" with an auto-approved bash that the
\* configuration keeps for the owner and lists for confirmation.
C14_Witness ==
    /\ gOut.called
    /\ gIn.cfg.Enabled
    /\ AutoApproved
    /\ gIn.toolName = "bash"
    /\ gIn.callerLevel = "blocked"
    /\ gIn.cfg.ToolPermissions["bash"] = "owner"
    /\ gIn.cfg.RequireConfirmation # <<>>
    /\ gIn.args.command = <<"r", "m", " ", "-", "r", "f", " ", "/">>
    /\ gOut.result = Allow

\* The order of the access levels, owner > admin > user > blocked, and the
\* least level each permission asks for; "public" asks for none.
LevelRank(level) ==
    CASE level = "owner" -> 3
      [] level = "admin" -> 2
      [] level = "user" -> 1
      [] OTHER -> 0

PermissionRank(required) ==
    CASE required = "owner" -> 3
      [] required = "admin" -> 2
      [] required = "user" -> 1
      [] OTHER -> 0

\* The permission the configuration requires for the tool of the call, user
\* when it names none.
Required ==
    IF gIn.toolName \in DOMAIN gIn.cfg.ToolPermissions
    THEN gIn.cfg.ToolPermissions[gIn.toolName] ELSE "user"

\* The call of a tool that is not auto-approved was allowed only to a caller
\* of the required level or above.
AllowedOnlyWithPermission ==
    gOut.result.Allowed =>
        LevelRank(gIn.callerLevel) >= PermissionRank(Required)

\* A blocked caller was not allowed a tool that requires user or above.
BlockedCallerRefused ==
    (gIn.callerLevel = "blocked" /\ Required \in {"user", "admin", "owner"}) =>
        ~gOut.result.Allowed

\* The statement of C15 for every guard, enabled or not.
C15_AnyGuard ==
    (gOut.called /\ ~AutoApproved) =>
        (AllowedOnlyWithPermission /\ BlockedCallerRefused)

\* C15: a guard that is enabled allows a tool that is not in auto_approve
\* only if the level of the caller is at least the level required for the
\* tool (owner > admin > user > blocked; user when no permission is
\* configured), and never allows a blocked caller a tool that requires user
\* or above. A guard that is not enabled allows every call.
C15_Permission ==
    (gOut.called /\ ~AutoApproved) =>
        IF gIn.cfg.Enabled
        THEN AllowedOnlyWithPermission /\ BlockedCallerRefused
        ELSE gOut.result.Allowed

\* A blocked caller was refused a tool without a configured permission.
C15_Witness ==
    /\ gOut.called
    /\ gIn.cfg.Enabled
    /\ ~AutoApproved
    /\ gIn.toolName = "my_tool"
    /\ gIn.toolName \notin DOMAIN gIn.cfg.ToolPermissions
    /\ gIn.callerLevel = "blocked"
    /\ gOut.result = Block("permission")

\* An enabled guard checked a call of bash or exec that is not auto-approved.
CommandChecked ==
    /\ gOut.called
    /\ gIn.cfg.Enabled
    /\ ~AutoApproved
    /\ gIn.toolName \in {"bash", "exec"}

\* The command of the call uses sudo.
UsesSudo ==
    Contains(gIn.args.command, <<"s", "u", "d", "o", " ">>)

\* C16: a bash/exec command that uses sudo is blocked for every caller when
\* allow_sudo is false, and with allow_sudo true it is allowed only to
\* callers of level admin or owner.
C16_Sudo ==
    (CommandChecked /\ UsesSudo) =>
        IF ~gIn.cfg.AllowSudo
        THEN ~gOut.result.Allowed
        ELSE (gOut.result.Allowed => gIn.callerLevel \in {"admin", "owner"})

\* The command of the call matches one of the default patterns.
MatchesDefault ==
    \E i \in DOMAIN defaultPatterns : MatchString(defaultPatterns[i], gIn.args.command)

\* The command of the call holds a keyword of the reboot check.
UsesReboot ==
    \E k \in DOMAIN RebootKeywords : Contains(gIn.args.command, RebootKeywords[k])

\* The caller has the permission of the tool, and the command is one the
\* sudo and reboot checks have nothing to say about.
ReachesPatterns ==
    /\ LevelRank(gIn.callerLevel) >= PermissionRank(Required)
    /\ ~UsesSudo
    /\ ~UsesReboot

\* The override of the default patterns: allow_destructive and an owner.
DestructiveOverride ==
    gIn.cfg.AllowDestructive /\ gIn.callerLevel = "owner"

MatchesCustom ==
    \E i \in DOMAIN gIn.cfg.DangerousCommands :
        MatchString(Compile(gIn.cfg.DangerousCommands[i]), gIn.args.command)

\* C18: a bash/exec command that matches a custom dangerous pattern of the
\* configuration is blocked for every caller level, owner included, and for
\* every value of allow_destructive.
C18_CustomPattern ==
    (CommandChecked /\ MatchesCustom) => ~gOut.result.Allowed

\* What precedes the first ":" of an scp path, when something does.
BeforeColon(path) ==
    IF Index(path, ":") > 0 THEN SubSeq(path, 1, Index(path, ":")) ELSE <<>>

\* The target host of the call: the host argument, or else the host of the
\* source, or else that of the destination.
HostOfCall ==
    IF gIn.args.host # <<>> THEN gIn.args.host
    ELSE IF BeforeColon(gIn.args.source) # <<>> THEN BeforeColon(gIn.args.source)
    ELSE BeforeColon(gIn.args.destination)

\* The target host after stripping user@.
BareHost ==
    IF Index(HostOfCall, "@") >= 0
    THEN SubSeq(HostOfCall, Index(HostOfCall, "@") + 2, Len(HostOfCall))
    ELSE HostOfCall

\* The allowed-hosts list lets the target host through: it is empty, or
\* has the bare wildcard, or the host itself, or a pattern *.suffix the host
\* matches (it ends in .suffix, or is the suffix).
HostAllowed ==
    \/ gIn.cfg.SSHAllowedHosts = <<>>
    \/ \E k \in DOMAIN gIn.cfg.SSHAllowedHosts :
          LET entry == gIn.cfg.SSHAllowedHosts[k]
          IN  \/ entry = <<"*">>
              \/ entry = BareHost
              \/ /\ Len(entry) >= 2 /\ entry[1] = "*" /\ entry[2] = "."
                 /\ \/ HasSuffix(BareHost, Tail(entry))
                    \/ BareHost = Tail(Tail(entry))

\* The statement of C19 for every guard and caller.
C19_AnyGuard ==
    (gOut.called /\ gIn.toolName \in {"ssh", "scp"}) =>
        (gOut.result.Allowed <=> HostAllowed)

\* C19: for ssh/scp that is not auto-approved, an enabled guard blocks every
\* call whose target host the allowed-hosts list does not let through (the
\* list is not empty and has neither the bare wildcard *, nor the host, nor
\* a pattern *.suffix the host matches, the host taken after stripping
\* user@; an empty host with a non-empty list is blocked), and allows the
\* call of a caller who has the permission of the tool exactly when the list
\* lets the host through.
C19_Hosts ==
    (gOut.called /\ gIn.cfg.Enabled /\ ~AutoApproved /\ gIn.toolName \in {"ssh", "scp"}) =>
        /\ ~HostAllowed => ~gOut.result.Allowed
        /\ LevelRank(gIn.callerLevel) >= PermissionRank(Required) =>
               (gOut.result.Allowed <=> HostAllowed)

\* An scp of the owner from u@a.x:/f passed the list with *.x.
C19_Witness ==
    /\ gOut.called
    /\ gIn.cfg.Enabled
    /\ ~AutoApproved
    /\ gIn.toolName = "scp"
    /\ gIn.callerLevel = "owner"
    /\ gIn.args.host = <<>>
    /\ gIn.args.source = <<"u", "@", "a", ".", "x", ":", "/", "f">>
    /\ gIn.cfg.SSHAllowedHosts = << <<"*", ".", "x">>, <<"b", ".", "y">> >>
    /\ gOut.result.Allowed

\* The protected-paths list in force: that of the configuration, or the
\* default list when the configuration has none.
ProtectedList ==
    IF gIn.cfg.ProtectedPaths = <<>> THEN defaultProtectedPaths ELSE gIn.cfg.ProtectedPaths

\* The path of the call is an entry of the protected-paths list or lies
\* under one.
UnderProtected ==
    \E k \in DOMAIN ProtectedList :
        \/ gIn.args.path = ProtectedList[k]
        \/ HasPrefix(gIn.args.path, ProtectedList[k] \o <<"/">>)

\* An enabled guard checked the call of a file tool that is not
\* auto-approved, by a caller who has the permission of the tool.
FileChecked ==
    /\ gOut.called
    /\ gIn.cfg.Enabled
    /\ ~AutoApproved
    /\ gIn.toolName \in {"read_file", "write_file", "edit_file"}
    /\ LevelRank(gIn.callerLevel) >= PermissionRank(Required)

\* C20: for a file tool on a path under the protected-paths list, the owner
\* is allowed to read and to write, an admin is allowed read_file only, and
\* a caller of level user is blocked for read and write.
C20_ProtectedPaths ==
    (FileChecked /\ UnderProtected) =>
        CASE gIn.callerLevel = "owner" -> gOut.result.Allowed
          [] gIn.callerLevel = "admin" -> (gOut.result.Allowed <=> gIn.toolName = "read_file")
          [] OTHER -> ~gOut.result.Allowed

\* The tool of the call is in the require_confirmation list.
ConfirmationListed ==
    \E k \in DOMAIN gIn.cfg.RequireConfirmation :
        gIn.cfg.RequireConfirmation[k] = gIn.toolName

\* A refused call does not ask for confirmation.
RefusedWithoutConfirmation ==
    ~gOut.result.Allowed => ~gOut.result.RequiresConfirmation

\* The statement of C21 for every guard, enabled or not.
C21_AnyGuard ==
    gOut.called =>
        /\ gOut.result.RequiresConfirmation <=>
               (ConfirmationListed /\ ~AutoApproved /\ gOut.result.Allowed)
        /\ RefusedWithoutConfirmation

\* C21: the result of an enabled guard has RequiresConfirmation exactly
\* when the tool is in require_confirmation, is not auto-approved, and the
\* permission, command, host and path checks all passed (the call is
\* allowed); a refused call never has it. A guard that is not enabled asks
\* for no confirmation.
C21_Confirmation ==
    gOut.called =>
        /\ gOut.result.RequiresConfirmation <=>
               (gIn.cfg.Enabled /\ ConfirmationListed /\ ~AutoApproved
                   /\ gOut.result.Allowed)
        /\ RefusedWithoutConfirmation

\* An admin's harmless exec, listed for confirmation, was allowed with
\* confirmation.
C21_Witness ==
    /\ gOut.called
    /\ gIn.cfg.Enabled
    /\ gIn.toolName = "exec"
    /\ ConfirmationListed
    /\ gIn.callerLevel = "admin"
    /\ gIn.args.command = <<"l", "s">>
    /\ gOut.result = [Allowed |-> TRUE, Reason |-> "", RequiresConfirmation |-> TRUE]

\* What Check returns for the call under the configuration cfg when no
\* reload runs.
Decision(cfg) ==
    GuardCheck(NewToolGuard(cfg), chk.toolName, chk.callerLevel, chk.args)

\* C22: a Check that runs next to a hot-reload (UpdateConfig) decides by the
\* complete old configuration or by the complete new one, never by a state
\* in between in which the list of compiled patterns is empty or partly
\* rebuilt: what it returns is what it would return under one of the two, so
\* a command blocked under both is blocked during the reload.
C22_ReloadAtomic ==
    chk.pc = "returned" =>
        chk.result \in {Decision(upd.old), Decision(upd.cfg)}

----------------------------------------------------------------------------
(* AgentRun.RunWithUsage under executeAgent: SpecAgent *)

\* Bounds of the model: the turns one run can start before time moves on,
\* the strings sent on the interrupt channel, the tool calls of a response.
MaxLoopTurns == 3
MaxInterrupts == 2
MaxToolCalls == 2

\* The unit of the clock, and the two deadlines in that unit.
TickSec == DefaultLLMCallTimeoutSec
runTimeoutTicks == DefaultRunTimeoutSec \div TickSec
llmCallTimeoutTicks == DefaultLLMCallTimeoutSec \div TickSec

\* ctx.Err() != nil in RunWithUsage, which is runCtx.Err() != nil in
\* executeAgent: the cancel func of the run was called.
CtxErr == env.cancelled

\* A run context made with context.WithCancel: it has no deadline.
RunCtxErrNoDeadline ==
    env.cancelled

\* runCtx.Err() != nil in RunWithUsage: cancelled, or the run deadline passed.
RunCtxErr ==
    env.cancelled \/ env.clock >= runTimeoutTicks

\* callCtx of the LLM call in flight is done.
CallCtxErr == RunCtxErr \/ env.clock - ag.callStart >= llmCallTimeoutTicks

\* buildMessages for a history of n entries with a response each.
buildMessages(n) ==
    <<Msg("system", <<"prompt">>, 100)>>
        \o [i \in 1..(2 * n) |-> Msg(IF i % 2 = 1 THEN "user" ELSE "assistant", <<"history">>, 100)]
        \o <<Msg("user", <<"userMessage">>, 100)>>

\* The texts of the follow-up messages among the messages, in order.
FollowUps(messages) ==
    SelectSeq([i \in 1..Len(messages) |->
                  IF messages[i].Role = "user" /\ messages[i].Text[1] = "follow-up"
                  THEN messages[i].Text[2] ELSE 0],
              LAMBDA t : t # 0)

\* resp.ToolCalls of the response of a turn: n calls, each with its id.
ToolCallsOf(turn, n) ==
    [i \in 1..n |-> <<turn, i>>]

\* The assistant message that carries the tool calls of a response.
AssistantToolCalls(calls) ==
    [Msg("assistant", <<"tool_calls">>, 100) EXCEPT !.ToolCalls = calls]

\* The orders in which n results can come back.
Orders(n) ==
    {o \in [1..n -> 1..n] : \A i, j \in 1..n : o[i] = o[j] => i = j}

\* What the tools of a run come to, by the position of the call in its
\* batch: a result, an error the model is expected to retry
\* (isRecoverableToolError), another error.
ToolOutcomes ==
    {[i \in 1..MaxToolCalls |-> IF i % 2 = 1 THEN p[1] ELSE p[2]] :
        p \in {<<"result", "result">>, <<"error", "result">>,
               <<"result", "recoverable error">>, <<"recoverable error", "error">>}}

\* ToolExecutor.Execute: the calls of a batch run concurrently and come
\* back in any order; there is one result per call, with the id of the
\* call, and an error is a result.
ExecuteResults(calls) ==
    {[i \in 1..Len(calls) |-> [ToolCallID |-> calls[o[i]],
                                Content |-> ag.outcome[o[i]],
                                Error |-> ag.outcome[o[i]] # "result"]] :
        o \in Orders(Len(calls))}

\* The entry of alog.llm for a call made now with the messages.
LLMCall(kind, turn, messages, withTools) ==
    [kind |-> kind, turn |-> turn, tools |-> withTools, n |-> Len(messages),
     followUps |-> FollowUps(messages), pending |-> interruptCh,
     clock |-> env.clock]

RunInit ==
    /\ now = 0
    /\ items = [s \in Sessions |-> <<>>]
    /\ timer = [s \in Sessions |-> NilTimer]
    /\ cb = [s \in Sessions |-> 0]
    /\ processing = [s \in Sessions |-> FALSE]
    /\ nextId = 0
    /\ drains = [s \in Sessions |-> <<>>]
    /\ accepted = [s \in Sessions |-> <<>>]
    /\ cmIn = <<>>
    /\ cmOut = <<>>
    /\ PInitVars
    /\ gIn = <<>>
    /\ gOut = NotChecked
    /\ RIdle
    /\ env = [clock |-> 0, cancelled |-> FALSE]
    /\ interruptCh = <<>>
    /\ alog = [llm |-> <<>>, tools |-> <<>>, sent |-> <<>>]
    /\ ov = [pc |-> "idle"]
    /\ XIdle
    /\ \E mt \in 0..2, ht \in BOOLEAN, n \in {0, 5}, out \in ToolOutcomes :
          ag = [pc |-> "start", maxTurns |-> mt, hasTools |-> ht, reflectionOn |-> TRUE,
                outcome |-> out,
                history |-> n, totalTurns |-> 0, messages |-> <<>>, callStart |-> 0,
                toolCalls |-> 0, results |-> <<>>, content |-> 0, err |-> "", cause |-> "",
                wrapped |-> "", reply |-> ""]

\* The variables the steps of the run leave alone.
RunFrame == <<cmIn, cmOut, gIn, gOut, rvars, ov, xvars, tvars, pvars, qvars>>

\* RunWithUsage returns the error.
Failed(kind) ==
    [ag EXCEPT !.pc = "returned", !.err = kind,
               !.cause = IF env.cancelled /\ env.clock < runTimeoutTicks THEN "cancel"
                         ELSE IF ~env.cancelled /\ env.clock >= runTimeoutTicks THEN "deadline"
                         ELSE IF env.cancelled THEN "both"
                         ELSE "other"]

\* RunWithUsage up to the loop: the messages are built, and without tools
\* a single completion is started.
RunStart ==
    /\ ag.pc = "start"
    /\ IF ~ag.hasTools
       THEN /\ ag' = [ag EXCEPT !.pc = "single", !.messages = buildMessages(ag.history),
                                !.callStart = env.clock]
            /\ alog' = [alog EXCEPT !.llm =
                           Append(@, LLMCall("single", 0, buildMessages(ag.history), FALSE))]
       ELSE /\ ag' = [ag EXCEPT !.pc = "turn", !.messages = buildMessages(ag.history)]
            /\ UNCHANGED alog
    /\ UNCHANGED <<env, interruptCh, RunFrame>>

\* The messages of the turn after the interrupt injection and the
\* reflection nudge.
TurnMessages(turn) ==
    (IF turn > 1
     THEN ag.messages \o [i \in 1..Len(interruptCh) |->
                             Msg("user", <<"follow-up", interruptCh[i]>>, 100)]
     ELSE ag.messages)
        \o (IF ag.reflectionOn /\ turn > 1 /\ turn % reflectionInterval = 0
            THEN <<Msg("user", <<"nudge">>, 100)>> ELSE <<>>)

\* A soft turn limit that applies to turn maxTurns itself.
SoftLimitFromLastTurn(turn) ==
    ag.maxTurns > 0 /\ turn >= ag.maxTurns

\* The soft turn limit: a.maxTurns > 0 && totalTurns > a.maxTurns.
SoftLimit(turn) ==
    ag.maxTurns > 0 /\ turn > ag.maxTurns

\* One iteration of the loop up to its LLM call: the soft turn limit, the
\* run timeout check, the interrupt injection, the reflection nudge.
TurnBegin ==
    /\ ag.pc = "turn"
    /\ LET turn == ag.totalTurns + 1
           summary == Append(ag.messages, Msg("user", <<"summary-request">>, 100))
       IN  IF SoftLimit(turn)
           THEN /\ ag' = [ag EXCEPT !.pc = "summary", !.totalTurns = turn,
                                    !.messages = summary, !.callStart = env.clock]
                /\ alog' = [alog EXCEPT !.llm =
                               Append(@, LLMCall("summary", turn, summary, FALSE))]
                /\ UNCHANGED interruptCh
           ELSE IF RunCtxErr
           THEN /\ ag' = [Failed("run timeout") EXCEPT !.totalTurns = turn]
                /\ UNCHANGED <<alog, interruptCh>>
           ELSE /\ ag' = [ag EXCEPT !.pc = "llm", !.totalTurns = turn,
                                    !.messages = TurnMessages(turn),
                                    !.callStart = env.clock]
                /\ interruptCh' = IF turn > 1 THEN <<>> ELSE interruptCh
                /\ alog' = [alog EXCEPT !.llm =
                               Append(@, [LLMCall("turn", turn, TurnMessages(turn), TRUE)
                                             EXCEPT !.pending = interruptCh'])]
    /\ UNCHANGED <<env, RunFrame>>

\* An LLM call is in flight.
InFlight == ag.pc \in {"llm", "retry", "summary", "single"}

\* LLMResponds that does not look at the number of tool calls of a response
\* to a call made with tools: Execute is called also with none.
LLMRespondsExecutesAlways(n) ==
    /\ InFlight
    /\ ~CallCtxErr
    /\ n > 0 => (ag.pc \in {"llm", "retry"} /\ ag.totalTurns < MaxLoopTurns)
    /\ IF ag.pc \in {"summary", "single"} \/ ag.totalTurns >= MaxLoopTurns
       THEN /\ ag' = [ag EXCEPT !.pc = "returned", !.toolCalls = n,
                                !.content = Len(alog.llm)]
            /\ UNCHANGED alog
       ELSE /\ ag' = [ag EXCEPT !.pc = "tools", !.toolCalls = n,
                                !.messages = Append(@, AssistantToolCalls(ToolCallsOf(ag.totalTurns, n)))]
            /\ alog' = [alog EXCEPT !.tools =
                           Append(@, [turn |-> ag.totalTurns, n |-> n,
                                      response |-> Len(alog.llm)])]
    /\ UNCHANGED <<env, interruptCh, RunFrame>>

\* The LLM call returns a response with n tool calls; a call made without
\* tools gets none. Without tool calls the run returns the content; with
\* tool calls the assistant message is appended and Execute is called.
LLMResponds(n) ==
    /\ InFlight
    /\ ~CallCtxErr
    /\ n > 0 => (ag.pc \in {"llm", "retry"} /\ ag.totalTurns < MaxLoopTurns)
    /\ IF n = 0 \/ ag.pc \in {"summary", "single"}
       THEN /\ ag' = [ag EXCEPT !.pc = "returned", !.toolCalls = n,
                                !.content = Len(alog.llm)]
            /\ UNCHANGED alog
       ELSE /\ ag' = [ag EXCEPT !.pc = "tools", !.toolCalls = n,
                                !.messages = Append(@, AssistantToolCalls(ToolCallsOf(ag.totalTurns, n)))]
            /\ alog' = [alog EXCEPT !.tools =
                           Append(@, [turn |-> ag.totalTurns, n |-> n,
                                      response |-> Len(alog.llm)])]
    /\ UNCHANGED <<env, interruptCh, RunFrame>>

\* The LLM call returns because the run context is done.
LLMContextDone ==
    /\ InFlight
    /\ RunCtxErr
    /\ ag' = CASE ag.pc = "llm" ->
                     IF CtxErr THEN Failed("cancelled by user") ELSE Failed("run timeout")
              [] ag.pc = "retry" -> Failed("LLM call failed")
              [] ag.pc = "summary" -> Failed("final summary call failed")
              [] OTHER -> Failed("completion failed")
    /\ UNCHANGED <<env, interruptCh, alog, RunFrame>>

\* The LLM call runs into its own deadline while the run context is not
\* done: on a later turn with more than 10 messages the context is
\* compacted and the call retried once.
LLMCallTimeout ==
    /\ InFlight
    /\ ~RunCtxErr
    /\ CallCtxErr
    /\ IF ag.pc = "llm" /\ ag.totalTurns > 2 /\ Len(ag.messages) > 10
       THEN /\ ag' = [ag EXCEPT !.pc = "retry",
                         !.messages = truncateToolResults(compactMessages(@, 12), 1500),
                         !.callStart = env.clock]
            /\ alog' = [alog EXCEPT !.llm =
                           Append(@, LLMCall("retry", ag.totalTurns,
                                truncateToolResults(compactMessages(ag.messages, 12), 1500),
                                TRUE))]
       ELSE /\ ag' = CASE ag.pc \in {"llm", "retry"} -> Failed("LLM call failed")
                       [] ag.pc = "summary" -> Failed("final summary call failed")
                       [] OTHER -> Failed("completion failed")
            /\ UNCHANGED alog
    /\ UNCHANGED <<env, interruptCh, RunFrame>>

\* RunWithUsage returns the error of a call that failed for another reason
\* than its context.
FailedCall ==
    [(CASE ag.pc \in {"llm", "retry"} -> Failed("LLM call failed")
        [] ag.pc = "summary" -> Failed("final summary call failed")
        [] OTHER -> Failed("completion failed"))
     EXCEPT !.wrapped = "provider error"]

\* LLMFails that takes every error of a call of the loop for a timeout: on
\* a later turn with more than 10 messages the context is compacted and the
\* call retried.
LLMFailsRetries ==
    /\ InFlight
    /\ ~CallCtxErr
    /\ IF ag.pc = "llm" /\ ag.totalTurns > 2 /\ Len(ag.messages) > 10
       THEN /\ ag' = [ag EXCEPT !.pc = "retry", !.wrapped = "provider error",
                         !.messages = truncateToolResults(compactMessages(@, 12), 1500),
                         !.callStart = env.clock]
            /\ alog' = [alog EXCEPT !.llm =
                           Append(@, LLMCall("retry", ag.totalTurns,
                                truncateToolResults(compactMessages(ag.messages, 12), 1500),
                                TRUE))]
       ELSE /\ ag' = FailedCall
            /\ UNCHANGED alog
    /\ UNCHANGED <<env, interruptCh, RunFrame>>

\* The LLM call fails for another reason than its context (the provider
\* refuses the key, or the overflow recovery is exhausted): the error has
\* neither "deadline exceeded" nor "context canceled" in it, and
\* RunWithUsage returns it.
LLMFails ==
    /\ InFlight
    /\ ~CallCtxErr
    /\ ag' = FailedCall
    /\ UNCHANGED <<env, interruptCh, alog, RunFrame>>

\* The tool messages of the results, with the tool_call_id of the
\* assistant message in place of the one of the result.
ToolMessagesByPosition(results) ==
    [i \in 1..Len(results) |->
        [Msg("tool", <<results[i].Content>>, 100)
            EXCEPT !.ToolCallID = ag.messages[Len(ag.messages)].ToolCalls[i]]]

\* The tool messages appended for the results: the content and the
\* ToolCallID of each result, in the order of the results.
ToolMessages(results) ==
    [i \in 1..Len(results) |->
        [Msg("tool", <<results[i].Content>>, 100)
            EXCEPT !.ToolCallID = results[i].ToolCallID]]

\* Execute returns, and each result is appended as a tool message; the
\* loop goes on whatever the results are.
ToolsReturn ==
    /\ ag.pc = "tools"
    /\ \E results \in ExecuteResults(ag.messages[Len(ag.messages)].ToolCalls) :
          ag' = [ag EXCEPT !.pc = "turn", !.results = results,
                           !.messages = @ \o ToolMessages(results)]
    /\ UNCHANGED <<env, interruptCh, alog, RunFrame>>

\* executeAgent after RunWithUsage returned.
ExecuteAgentReplies ==
    /\ ag.pc = "returned"
    /\ ag' = [ag EXCEPT !.pc = "replied",
                        !.reply = IF ag.err # ""
                                  THEN (IF CtxErr THEN "Agent stopped." ELSE "error")
                                  ELSE "response"]
    /\ UNCHANGED <<env, interruptCh, alog, RunFrame>>

\* The producer sends a string on the interrupt channel.
SendInterrupt ==
    /\ ag.pc \notin {"returned", "replied"}
    /\ Len(alog.sent) < MaxInterrupts
    /\ interruptCh' = Append(interruptCh, Len(alog.sent) + 1)
    /\ alog' = [alog EXCEPT !.sent = Append(@, Len(alog.sent) + 1)]
    /\ UNCHANGED <<ag, env, RunFrame>>

\* StopActiveRun calls the cancel func of the run.
CancelRun ==
    /\ ag.pc \notin {"start", "replied"}
    /\ ~env.cancelled
    /\ env' = [env EXCEPT !.cancelled = TRUE]
    /\ UNCHANGED <<ag, interruptCh, alog, RunFrame>>

\* Time passes.
ClockTick ==
    /\ ag.pc \notin {"returned", "replied"}
    /\ env.clock < runTimeoutTicks
    /\ env' = [env EXCEPT !.clock = @ + 1]
    /\ UNCHANGED <<ag, interruptCh, alog, RunFrame>>

\* The steps of the run itself.
RunSteps ==
    \/ RunStart
    \/ TurnBegin
    \/ \E n \in 0..MaxToolCalls : LLMResponds(n)
    \/ LLMContextDone
    \/ LLMCallTimeout
    \/ LLMFails
    \/ ToolsReturn
    \/ ExecuteAgentReplies

RunNext ==
    \/ RunSteps
    \/ SendInterrupt
    \/ CancelRun
    \/ ClockTick

SpecAgent == RunInit /\ [][RunNext]_vars

\* The steps that do not wait for the provider: the code of the loop, the
\* return of Execute, and the return of an LLM call whose context is done.
ContextSteps ==
    \/ RunStart
    \/ TurnBegin
    \/ LLMContextDone
    \/ LLMCallTimeout
    \/ ToolsReturn
    \/ ExecuteAgentReplies

\* The run is scheduled, the LLM calls and the tool handlers return when
\* their context is done, and time passes. A provider that never answers is
\* a behaviour of this specification.
SpecAgentLive == SpecAgent /\ WF_vars(ContextSteps) /\ WF_vars(ClockTick)

----------------------------------------------------------------------------
(* AgentRun.doLLMCallWithOverflowRetry: SpecOverflow *)

\* Bounds of the model: the largest maxCompactionAttempts configured, and
\* the messages of the longest request next to the system message.
MaxAttempts == 5
MaxRequest == 26

\* The lengths of the requests, next to the system message: short ones, and
\* ones around the numbers of messages the compactions keep.
RequestLengths == {2, 7, 16, 21, MaxRequest}

\* The sizes of the tool results of a request: under both limits, between
\* them, over both, or mixed.
ToolSizes == {"small", "mid", "big", "mixed"}

\* Message i of a request of n messages: a user message, an assistant
\* message with a tool call, and the tool result of that call, in turn; the
\* last assistant message of a request that ends with it has no tool call.
RequestMsg(i, n, sizes) ==
    IF i % 3 = 0
    THEN [Msg("tool", <<"m", i>>,
              CASE sizes = "small" -> 100
                [] sizes = "mid" -> 3000
                [] sizes = "big" -> 5000
                [] OTHER -> IF i % 6 = 0 THEN 5000 ELSE 3000)
          EXCEPT !.ToolCallID = <<i - 1, 1>>]
    ELSE IF i % 3 = 1 THEN Msg("user", <<"m", i>>, 100)
    ELSE [Msg("assistant", <<"m", i>>, 100)
          EXCEPT !.ToolCalls = IF i < n THEN <<<<i, 1>>>> ELSE <<>>]

\* The messages of a request: the system message when the system prompt is
\* not empty, then n messages.
Request(sys, n, sizes) ==
    (IF sys THEN <<Msg("system", <<"prompt">>, 100)>> ELSE <<>>)
        \o [i \in 1..n |-> RequestMsg(i, n, sizes)]

\* The variables doLLMCallWithOverflowRetry leaves alone.
OvFrame == <<cmIn, cmOut, gIn, gOut, rvars, ag, env, interruptCh, alog, xvars, tvars, pvars, qvars>>

\* doLLMCallWithOverflowRetry is entered with the messages of its caller:
\* toolResultTruncated := false, keepRecent := 20, attempt := 0.
OvInit ==
    /\ now = 0
    /\ items = [s \in Sessions |-> <<>>]
    /\ timer = [s \in Sessions |-> NilTimer]
    /\ cb = [s \in Sessions |-> 0]
    /\ processing = [s \in Sessions |-> FALSE]
    /\ nextId = 0
    /\ drains = [s \in Sessions |-> <<>>]
    /\ accepted = [s \in Sessions |-> <<>>]
    /\ cmIn = <<>>
    /\ cmOut = <<>>
    /\ PInitVars
    /\ gIn = <<>>
    /\ gOut = NotChecked
    /\ RIdle
    /\ ag = [pc |-> "idle"]
    /\ env = [clock |-> 0, cancelled |-> FALSE]
    /\ interruptCh = <<>>
    /\ alog = [llm |-> <<>>, tools |-> <<>>, sent |-> <<>>]
    /\ XIdle
    /\ \E max \in 1..MaxAttempts, sys \in BOOLEAN, n \in RequestLengths, sizes \in ToolSizes :
          ov = [pc |-> "loop", max |-> max, attempt |-> 0,
                caller |-> Request(sys, n, sizes),
                messages |-> Request(sys, n, sizes),
                toolResultTruncated |-> FALSE, keepRecent |-> 20,
                calls |-> <<>>, recov |-> <<>>, err |-> ""]

\* The loop condition holds: the LLM is called with the messages.
OvCall ==
    /\ ov.pc = "loop"
    /\ ov.attempt < ov.max
    /\ ov' = [ov EXCEPT !.pc = "inflight", !.calls = Append(@, ov.messages)]
    /\ UNCHANGED OvFrame

\* The loop condition fails: the error after the loop.
OvExhausted ==
    /\ ov.pc = "loop"
    /\ ov.attempt >= ov.max
    /\ ov' = [ov EXCEPT !.pc = "returned", !.err = "context overflow"]
    /\ UNCHANGED OvFrame

\* err == nil: the response is returned.
OvOk ==
    /\ ov.pc = "inflight"
    /\ ov' = [ov EXCEPT !.pc = "returned"]
    /\ UNCHANGED OvFrame

\* An error that is not a context overflow is returned.
OvOtherError ==
    /\ ov.pc = "inflight"
    /\ ov' = [ov EXCEPT !.pc = "returned", !.err = "other"]
    /\ UNCHANGED OvFrame

\* The recovery after a context overflow: once, the truncation of the tool
\* results over 4000; otherwise the compaction to keepRecent messages, the
\* truncation of the tool results over 2000, and the next keepRecent.
OvRecover ==
    IF ~ov.toolResultTruncated /\ hasOversizedToolResults(ov.messages, 4000)
    THEN [ov EXCEPT !.messages = truncateToolResults(@, 4000),
                    !.toolResultTruncated = TRUE,
                    !.recov = Append(@, [kind |-> "truncate", keep |-> 0,
                                         before |-> ov.messages,
                                         after |-> truncateToolResults(ov.messages, 4000)])]
    ELSE LET after == truncateToolResults(compactMessages(ov.messages, ov.keepRecent), 2000)
         IN  [ov EXCEPT !.messages = after,
                        !.keepRecent = NextKeepRecent(@),
                        !.recov = Append(@, [kind |-> "compact", keep |-> ov.keepRecent,
                                             before |-> ov.messages,
                                             after |-> after])]

\* A recovery that works on the slice of the caller.
OvOverflowInPlace ==
    /\ ov.pc = "inflight"
    /\ ov' = [OvRecover EXCEPT !.pc = "loop", !.attempt = ov.attempt + 1,
                               !.caller = OvRecover.messages]
    /\ UNCHANGED OvFrame

\* The call fails with a context overflow: the recovery is applied to the
\* messages of the function, which truncateToolResults and compactMessages
\* build in a slice of their own, and the loop goes to its next attempt.
OvOverflow ==
    /\ ov.pc = "inflight"
    /\ ov' = [OvRecover EXCEPT !.pc = "loop", !.attempt = ov.attempt + 1]
    /\ UNCHANGED OvFrame

OvNext ==
    \/ OvCall
    \/ OvExhausted
    \/ OvOk
    \/ OvOtherError
    \/ OvOverflow

SpecOverflow == OvInit /\ [][OvNext]_vars

----------------------------------------------------------------------------
(* Claims about the AgentRun *)

\* The state of the run in the state machine of the specification.
RunState ==
    CASE ag.pc \in {"idle", "start"} -> "IDLE"
      [] ag.pc \in {"turn", "llm", "retry", "summary", "single"} -> "RUNNING"
      [] ag.pc = "tools" -> "TOOLS_PENDING"
      [] ag.err = "" -> "DONE"
      [] OTHER -> "ENDED"

RunTerminal == RunState \in {"DONE", "ENDED"}

\* The moves of the state machine.
RunMoves ==
    RunState' # RunState =>
        <<RunState, RunState'>> \in
            {<<"IDLE", "RUNNING">>, <<"RUNNING", "TOOLS_PENDING">>,
             <<"TOOLS_PENDING", "RUNNING">>, <<"RUNNING", "DONE">>, <<"RUNNING", "ENDED">>}

\* A step in which the LLM call in flight ends with a response.
ResponseStep ==
    /\ ag.pc \in {"llm", "retry", "summary", "single"}
    /\ ag'.pc \in {"tools", "returned"}
    /\ ag'.err = ""

\* Execute is called only in a step in which a response with tool calls
\* arrives, and then once.
ToolsOnlyOnToolCalls ==
    alog'.tools # alog.tools =>
        /\ ResponseStep
        /\ ag'.toolCalls > 0
        /\ Len(alog'.tools) = Len(alog.tools) + 1
        /\ RunState' = "TOOLS_PENDING"

\* The run returns its content exactly in the steps in which a response
\* without tool calls arrives, and a response with tool calls has them
\* executed.
DoneOnNoToolCalls ==
    /\ (RunState # "DONE" /\ RunState' = "DONE") => (ResponseStep /\ ag'.toolCalls = 0)
    /\ ResponseStep =>
          /\ ag'.toolCalls = 0 => (RunState' = "DONE" /\ ag'.content = Len(alog.llm))
          /\ ag'.toolCalls > 0 => (RunState' = "TOOLS_PENDING" /\ alog'.tools # alog.tools)

\* A run that has ended stays ended, calls the LLM no more and executes no
\* more tools.
TerminalIsFinal ==
    RunTerminal =>
        /\ RunState' = RunState
        /\ alog'.llm = alog.llm
        /\ alog'.tools = alog.tools

\* C23: a run goes IDLE, RUNNING, then between TOOLS_PENDING and RUNNING any
\* number of times, then to a terminal state: tools are executed only after
\* a response with tool calls, the run returns its content exactly when a
\* response has none, and an ended run makes no LLM call and executes no
\* tool.
C23_StateMachine ==
    [][RunMoves /\ ToolsOnlyOnToolCalls /\ DoneOnNoToolCalls /\ TerminalIsFinal]_vars

\* A run that executed tools in two turns and returned the content of its
\* third response.
C23_Witness ==
    /\ ag.pc = "replied"
    /\ ag.reply = "response"
    /\ ag.totalTurns = 3
    /\ Len(alog.tools) = 2
    /\ Len(alog.llm) = 3
    /\ ag.content = 3

\* The run deadline has expired.
DeadlineExpired == env.clock >= runTimeoutTicks

\* After the deadline the run executes no tool and starts no LLM call with
\* tools.
DeadlineStops ==
    DeadlineExpired =>
        /\ alog'.tools = alog.tools
        /\ \A i \in (Len(alog.llm) + 1)..Len(alog'.llm) : ~alog'.llm[i].tools

\* A run with tools and no turn limit that nobody cancelled, in which no
\* LLM call hung or failed and every response carried tool calls.
EndlessToolCalls ==
    /\ ag.maxTurns = 0
    /\ ag.hasTools
    /\ ~env.cancelled
    /\ RunState # "DONE"
    /\ ag.cause # "other"
    /\ \A i \in 1..Len(alog.llm) : alog.llm[i].kind = "turn"

\* Such a run ends with the run timeout, after the deadline.
EndsWithTimeout ==
    (RunTerminal /\ EndlessToolCalls) =>
        /\ ag.err = "run timeout"
        /\ DeadlineExpired

\* C24: every run ends; after the run deadline no tool is executed and no
\* LLM call with tools is started; a run with maxTurns = 0 whose every
\* response carries tool calls ends with the run timeout once the deadline
\* has expired.
C24_Terminates ==
    /\ <>RunTerminal
    /\ [][DeadlineStops]_vars
    /\ []EndsWithTimeout

\* A run without turn limit whose every response carried tool calls and
\* that the deadline ended at the start of its third turn.
C24_Witness ==
    /\ RunTerminal
    /\ EndlessToolCalls
    /\ ag.totalTurns = 3
    /\ Len(alog.tools) = 2
    /\ Len(alog.llm) = 2
    /\ ag.err = "run timeout"

\* The error of the run is the run timeout (agent.go:259, 303).
ReportedAsTimeout == ag.err = "run timeout"

\* C25: a run that ended because the run deadline elapsed (and nobody
\* cancelled it) is reported as a run timeout and is not answered with
\* "Agent stopped."; a run that ended because the user cancelled it, before
\* the deadline, is not reported as a run timeout.
C25_TimeoutNotCancel ==
    /\ ag.cause = "deadline" => (ReportedAsTimeout /\ ag.reply # "Agent stopped.")
    /\ ag.cause = "cancel" => ~ReportedAsTimeout

\* The indices of the summary calls among the LLM calls.
SummaryCalls == {i \in 1..Len(alog.llm) : alog.llm[i].kind = "summary"}

\* The LLM calls made with tools belong to the turns 1..maxTurns.
ToolRoundsWithinLimit ==
    ag.maxTurns > 0 =>
        \A i \in 1..Len(alog.llm) :
            alog.llm[i].tools => alog.llm[i].turn \in 1..ag.maxTurns

\* The summary call is made in turn maxTurns + 1 without tools, it is the
\* last LLM call, and no tool was executed in its turn.
SummaryCallIsLast ==
    \A i \in SummaryCalls :
        /\ ag.maxTurns > 0
        /\ i = Len(alog.llm)
        /\ alog.llm[i].turn = ag.maxTurns + 1
        /\ ~alog.llm[i].tools
        /\ \A j \in 1..Len(alog.tools) : alog.tools[j].turn <= ag.maxTurns

\* A run whose summary call was made returns the content of that call or
\* the failure of that call.
SummaryEndsRun ==
    (SummaryCalls # {} /\ RunTerminal) =>
        \/ ag.err = "" /\ ag.content \in SummaryCalls
        \/ ag.err = "final summary call failed"

\* The iteration that follows turn maxTurns appends the summary request
\* and makes the summary call with it; no other step makes a summary call.
SummaryStep ==
    /\ (ag.pc = "turn" /\ ag'.pc # "turn" /\ ag.maxTurns > 0 /\ ag.totalTurns = ag.maxTurns) =>
          /\ ag'.pc = "summary"
          /\ ag'.messages = Append(ag.messages, Msg("user", <<"summary-request">>, 100))
          /\ Len(alog'.llm) = Len(alog.llm) + 1
          /\ alog'.llm[Len(alog'.llm)].kind = "summary"
          /\ alog'.llm[Len(alog'.llm)].n = Len(ag.messages) + 1
    /\ ag'.pc = "summary" => (ag.pc = "summary" \/ (ag.pc = "turn" /\ ag.totalTurns = ag.maxTurns))
    /\ ag.pc = "summary" => (alog'.llm = alog.llm /\ alog'.tools = alog.tools /\ ag'.pc \in {"summary", "returned"})

LoopCalls == {i \in 1..Len(alog.llm) : alog.llm[i].kind \in {"turn", "summary"}}

\* No string is pending in the channel when the LLM call of an iteration
\* is made.
DrainedBeforeCall ==
    \A i \in LoopCalls : alog.llm[i].pending = <<>>

\* Strings leave the channel only between LLM calls, all at once, and each
\* becomes one follow-up message, in channel order, after the follow-ups
\* already there.
DrainStep ==
    /\ InFlight => Len(interruptCh') >= Len(interruptCh)
    /\ Len(interruptCh') < Len(interruptCh) =>
          /\ ag.pc = "turn"
          /\ interruptCh' = <<>>
          /\ FollowUps(ag'.messages) = FollowUps(ag.messages) \o interruptCh
    /\ FollowUps(ag'.messages) # FollowUps(ag.messages) =>
          (ag.pc = "retry" \/ Len(interruptCh') < Len(interruptCh) \/ ag'.pc = "retry")

\* C27: at every iteration of the loop the strings pending in the
\* interrupt channel are drained before the LLM call of the iteration, each
\* appended once, in channel order, as a follow-up user message; none is
\* injected during an LLM call.
C27_Interrupts ==
    /\ []DrainedBeforeCall
    /\ [][DrainStep]_vars

\* The first call failed with a context overflow while a tool result of
\* its request was over the 4000 limit.
OverflowWithOversized ==
    /\ Len(ov.recov) >= 1
    /\ hasOversizedToolResults(ov.calls[1], 4000)

\* The step only truncates: no message is removed, and only tool results
\* over the limit change.
OnlyTruncates(before, after) ==
    /\ Len(after) = Len(before)
    /\ \A i \in 1..Len(before) :
          IF before[i].Role = "tool" /\ before[i].Len > 4000
          THEN /\ after[i].Role = "tool"
               /\ after[i].Text = before[i].Text
               /\ after[i].Len <= 4000
          ELSE after[i] = before[i]

\* C28: after a context overflow with a tool result over the 4 K limit the
\* first recovery step only truncates the oversized tool results, and the
\* call is retried with a request that has no tool result over the limit;
\* when the retry succeeds two LLM calls were made.
C28_TruncateFirst ==
    OverflowWithOversized =>
        /\ ov.recov[1].kind = "truncate"
        /\ ov.recov[1].before = ov.calls[1]
        /\ OnlyTruncates(ov.recov[1].before, ov.recov[1].after)
        /\ ov.pc = "returned" =>
              /\ Len(ov.calls) >= 2
              /\ ov.calls[2] = ov.recov[1].after
              /\ ~hasOversizedToolResults(ov.calls[2], 4000)
              /\ (Len(ov.recov) = 1 /\ ov.err = "") => Len(ov.calls) = 2

\* Recovery j was applied after call j failed; it is retried when call
\* j + 1 is made with the messages it produced.
Retried(j) ==
    /\ Len(ov.calls) >= j + 1
    /\ ov.calls[j + 1] = ov.recov[j].after

\* Every compaction of a call that has returned was retried.
CompactionsRetried ==
    ov.pc = "returned" =>
        \A j \in 1..Len(ov.recov) : ov.recov[j].kind = "compact" => Retried(j)

\* No more than maxCompactionAttempts recoveries, each with one retry at most.
RecoveriesBounded ==
    /\ Len(ov.recov) <= ov.max
    /\ Len(ov.calls) <= ov.max + 1

\* The context overflow error is returned after maxCompactionAttempts
\* recoveries, not before, and the call has then returned.
ExhaustedIsFatal ==
    ov.err = "context overflow" =>
        /\ ov.pc = "returned"
        /\ Len(ov.recov) = ov.max

\* C29: every compaction applied after a context overflow is followed by a
\* retry of the LLM call with the compacted messages; at most
\* maxCompactionAttempts recoveries are made, and when they are exhausted
\* the call returns the context overflow error.
C29_CompactionRetried ==
    /\ CompactionsRetried
    /\ RecoveriesBounded
    /\ ExhaustedIsFatal

\* The compactions among the recoveries, in order.
Compactions == SelectSeq(ov.recov, LAMBDA r : r.kind = "compact")

\* 20, 15, 10, 6, 6, ...
KeepOfCompaction(j) ==
    IF 20 - 5 * (j - 1) < 6 THEN 6 ELSE 20 - 5 * (j - 1)

\* The system message, if it is the first message, and the last keepRecent
\* of the other messages.
SystemAndRecent(messages, keepRecent) ==
    IF messages # <<>> /\ messages[1].Role = "system"
    THEN <<messages[1]>> \o LastN(Tail(messages), keepRecent)
    ELSE LastN(messages, keepRecent)

\* The messages without the lengths a truncation changes.
Texts(messages) ==
    [i \in 1..Len(messages) |-> <<messages[i].Role, messages[i].Text>>]

\* Compaction j keeps the system message and the last KeepOfCompaction(j)
\* messages, the most recent one among them, and leaves no tool result
\* over 2000 and no other message changed.
CompactionKeeps(j) ==
    LET c == Compactions[j]
        kept == SystemAndRecent(c.before, c.keep)
    IN  /\ c.keep = KeepOfCompaction(j)
        /\ Texts(c.after) = Texts(kept)
        /\ c.after[Len(c.after)].Text = c.before[Len(c.before)].Text
        /\ \A i \in 1..Len(c.after) :
              IF kept[i].Role = "tool" /\ kept[i].Len > 2000
              THEN c.after[i].Len <= 2000
              ELSE c.after[i] = kept[i]

\* C30: the compactions of one call keep 20, 15, 10, 6, 6, ... recent
\* messages; each keeps the system message, if it is the first message, and
\* the last keepRecent messages, the most recent one included, and
\* truncates the tool results that remain to the 2 K limit.
C30_KeepRecent ==
    \A j \in 1..Len(Compactions) : CompactionKeeps(j)

----------------------------------------------------------------------------
(* PromptComposer.Compose: SpecPrompt *)

\* The prompt layers. Texts are sequences of pieces; "\n\n" is the piece
\* the layers are joined with.
LayerCore == 0
LayerSafety == 5
LayerIdentity == 10
LayerThinking == 12
LayerBootstrap == 15
LayerBusiness == 20
LayerSkills == 40
LayerMemory == 50
LayerTemporal == 60
LayerConversation == 70
LayerRuntime == 80

NL2 == "\n\n"

buildCoreLayer(p) ==
    <<"You are ", p.Name, ", a personal assistant running inside GoClaw.", NL2,
      "## Tooling", NL2, "## Tool Call Style">>

buildSafetyLayer == <<"## Safety">>

buildThinkingLayer(p) ==
    IF p.ThinkingLevel = "" \/ p.ThinkingLevel = "off" THEN <<>>
    ELSE IF p.ThinkingLevel \in {"low", "medium", "high"}
    THEN <<"## Thinking Mode", NL2, p.ThinkingLevel>>
    ELSE <<>>

buildBootstrapLayer(p) ==
    IF p.BootstrapFiles = <<>> THEN <<>>
    ELSE <<"# Project Context", NL2>> \o p.BootstrapFiles \o <<NL2>>

buildSkillsLayer(p) ==
    IF p.ActiveSkills = <<>> THEN <<>>
    ELSE <<"## Skills", NL2>> \o p.ActiveSkills

buildMemoryLayer(p) ==
    IF p.Facts = <<>> THEN <<>>
    ELSE <<"## Session Context", NL2>> \o p.Facts

buildTemporalLayer == <<"## Current Date & Time", NL2, "Timezone: ", "Day: ">>

buildConversationLayer(p) ==
    IF p.History = <<>> THEN <<>>
    ELSE <<"## Recent Conversation", NL2>> \o p.History

buildRuntimeLayer(p) == <<"---", "Runtime: agent=", p.Name>>

layerEntry(layer, content) == [layer |-> layer, content |-> content]

\* The layers Compose appends, in the order of its code.
ComposeLayers(p) ==
    <<layerEntry(LayerCore, buildCoreLayer(p)), layerEntry(LayerSafety, buildSafetyLayer)>>
    \o (IF p.Instructions # <<>>
        THEN <<layerEntry(LayerIdentity, <<"## Custom Instructions", NL2>> \o p.Instructions)>>
        ELSE <<>>)
    \o (IF buildThinkingLayer(p) # <<>>
        THEN <<layerEntry(LayerThinking, buildThinkingLayer(p))>> ELSE <<>>)
    \o (IF buildBootstrapLayer(p) # <<>>
        THEN <<layerEntry(LayerBootstrap, buildBootstrapLayer(p))>> ELSE <<>>)
    \o (IF p.BusinessContext # <<>>
        THEN <<layerEntry(LayerBusiness, <<"## Workspace Context", NL2>> \o p.BusinessContext)>>
        ELSE <<>>)
    \o (IF buildSkillsLayer(p) # <<>>
        THEN <<layerEntry(LayerSkills, buildSkillsLayer(p))>> ELSE <<>>)
    \o (IF buildMemoryLayer(p) # <<>>
        THEN <<layerEntry(LayerMemory, buildMemoryLayer(p))>> ELSE <<>>)
    \o <<layerEntry(LayerTemporal, buildTemporalLayer)>>
    \o (IF buildConversationLayer(p) # <<>>
        THEN <<layerEntry(LayerConversation, buildConversationLayer(p))>> ELSE <<>>)
    \o <<layerEntry(LayerRuntime, buildRuntimeLayer(p))>>

\* sort.Slice by layer: the entry is inserted before the first entry with a
\* larger layer.
RECURSIVE InsertLayer(_, _)
InsertLayer(sorted, e) ==
    IF sorted = <<>> THEN <<e>>
    ELSE IF e.layer < Head(sorted).layer THEN <<e>> \o sorted
    ELSE <<Head(sorted)>> \o InsertLayer(Tail(sorted), e)

RECURSIVE SortLayers(_)
SortLayers(layers) ==
    IF layers = <<>> THEN <<>>
    ELSE InsertLayer(SortLayers(SubSeq(layers, 1, Len(layers) - 1)), layers[Len(layers)])

\* strings.Join(parts, sep)
RECURSIVE Join(_, _)
Join(parts, sep) ==
    IF parts = <<>> THEN <<>>
    ELSE IF Len(parts) = 1 THEN parts[1]
    ELSE parts[1] \o <<sep>> \o Join(Tail(parts), sep)

\* The contents of the entries that are not empty.
Parts(layers) ==
    LET kept == SelectSeq(layers, LAMBDA l : l.content # <<>>)
    IN  [i \in 1..Len(kept) |-> kept[i].content]

\* assembleLayers that joins the layers with a single newline.
assembleLayersNewline(layers) ==
    Join(Parts(SortLayers(layers)), "\n")

\* assembleLayers: sort by layer, drop the empty contents, join.
assembleLayers(layers) ==
    Join(Parts(SortLayers(layers)), NL2)

Compose(p) == assembleLayers(ComposeLayers(p))

\* The inputs of Compose.
Texts1 == {<<>>, <<"x">>}
ThinkingLevels == {"", "off", "low", "high", "max"}
TokenBudgets == {2, 14, 20, 40}

PromptInit ==
    /\ now = 0
    /\ items = [s \in Sessions |-> <<>>]
    /\ timer = [s \in Sessions |-> NilTimer]
    /\ cb = [s \in Sessions |-> 0]
    /\ processing = [s \in Sessions |-> FALSE]
    /\ nextId = 0
    /\ drains = [s \in Sessions |-> <<>>]
    /\ accepted = [s \in Sessions |-> <<>>]
    /\ cmIn = <<>>
    /\ cmOut = <<>>
    /\ PInitVars
    /\ gIn = <<>>
    /\ gOut = NotChecked
    /\ RIdle
    /\ RunIdle
    /\ sess = [pc |-> "idle"]
    /\ \E ins \in Texts1, th \in ThinkingLevels, bf \in Texts1, bc \in Texts1,
          sk \in Texts1, fa \in Texts1, hi \in Texts1, tb \in TokenBudgets :
          prompt = [pc |-> "call", out |-> <<>>,
                    cfg |-> [Name |-> "N", Instructions |-> ins, ThinkingLevel |-> th,
                             BootstrapFiles |-> bf, BusinessContext |-> bc,
                             ActiveSkills |-> sk, Facts |-> fa, History |-> hi,
                             TokenBudget |-> tb]]

CallCompose ==
    /\ prompt.pc = "call"
    /\ prompt' = [prompt EXCEPT !.pc = "done", !.out = Compose(prompt.cfg)]
    /\ UNCHANGED <<sess, cmIn, cmOut, gIn, gOut, rvars, ag, env, interruptCh, alog, ov,
                   tvars, pvars, qvars>>

PromptNext == CallCompose

SpecPrompt == PromptInit /\ [][PromptNext]_vars

----------------------------------------------------------------------------
(* Claims about activeRuns *)

\* A run in progress that was not stopped has its cancel func in the map
\* under its key.
RunsReachable ==
    \A w \in workers :
        (w.pc = "run" /\ ~w.cancelled) => activeRuns[w.msg.sess] = w.msg.ids

\* An entry of the map belongs to a run that has not exited.
NoStaleEntry ==
    \A s \in Sessions :
        activeRuns[s] # NoRun =>
            \E w \in workers :
                w.msg.sess = s /\ w.msg.ids = activeRuns[s] /\ w.pc \in {"run", "exit"}

\* A run StopActiveRun has stopped has no entry any more: a second
\* StopActiveRun does not find it.
StoppedOnce ==
    \A w \in workers :
        w.cancelled => activeRuns[w.msg.sess] # w.msg.ids

\* C34: activeRuns holds the cancel func of a run under its key while the
\* run is in progress and not stopped; no entry remains after the run
\* exits; StopActiveRun returns true at most once per run and false when
\* no run is active.
C34_ActiveRuns ==
    /\ RunsReachable
    /\ NoStaleEntry
    /\ StoppedOnce

----------------------------------------------------------------------------
(* Claims about the input guard *)

\* The refusal sent for a message.
Refusal(msg) == [ids |-> msg.ids, kind |-> "refusal"]

\* The handler w is at the input guard (its message has passed the
\* trigger) and the step ends it: the input guard has rejected the message.
Rejected(w) ==
    /\ w.pc = "admit"
    /\ matchesTrigger(w.msg.content, Trigger, IsGroup(w.msg.sess))
    /\ \A v \in workers' : v.msg.ids # w.msg.ids

\* The step of a rejection sends the one refusal, releases the flag, and
\* changes neither the caller context, nor the runs, nor the history.
RejectionStep ==
    \A w \in workers :
        Rejected(w) =>
            /\ Refusal(w.msg) \notin sent
            /\ sent' = sent \cup {Refusal(w.msg)}
            /\ ~processing'[w.msg.sess]
            /\ UNCHANGED <<toolCtx, toolLog, activeRuns, history>>

\* A refused message is answered with nothing else, is in no history entry
\* and in no tool call, and is not handled any further.
RefusedIsFinal ==
    \A r \in sent :
        r.kind = "refusal" =>
            /\ \A q \in sent : q.ids = r.ids => q = r
            /\ \A s \in Sessions : \A i \in 1..Len(history[s]) : history[s][i].ids # r.ids
            /\ \A t \in toolLog : t.ids # r.ids
            /\ \A w \in workers : w.msg.ids # r.ids

\* C35: when the input guard rejects a message one refusal is sent, no
\* agent run starts, no caller context is set, the history of the session
\* is unchanged and the processing flag of the session is released.
C35_InputGuard ==
    /\ [][RejectionStep]_vars
    /\ []RefusedIsFinal

\* The first message of a session was rejected: the refusal is the only
\* reply, the flag is released, no context was set, nothing is in the
\* history.
C35_Witness ==
    /\ sent = {[ids |-> <<1>>, kind |-> "refusal"]}
    /\ workers = {}
    /\ \A s \in Sessions : ~processing[s] /\ history[s] = <<>> /\ activeRuns[s] = NoRun
    /\ toolCtx = NoContext

----------------------------------------------------------------------------
(* Claims about the PromptComposer *)

\* The layers by name, with the priority the specification gives each.
LayerTable ==
    <<[name |-> "Core", priority |-> 0, layer |-> LayerCore],
      [name |-> "Safety", priority |-> 5, layer |-> LayerSafety],
      [name |-> "Identity", priority |-> 10, layer |-> LayerIdentity],
      [name |-> "Thinking", priority |-> 12, layer |-> LayerThinking],
      [name |-> "Bootstrap", priority |-> 15, layer |-> LayerBootstrap],
      [name |-> "Business", priority |-> 20, layer |-> LayerBusiness],
      [name |-> "Skills", priority |-> 40, layer |-> LayerSkills],
      [name |-> "Memory", priority |-> 50, layer |-> LayerMemory],
      [name |-> "Temporal", priority |-> 60, layer |-> LayerTemporal],
      [name |-> "Conversation", priority |-> 70, layer |-> LayerConversation],
      [name |-> "Runtime", priority |-> 80, layer |-> LayerRuntime]>>

\* The content of a layer for the inputs of the call, empty when the layer
\* has nothing to say.
ContentOf(name, p) ==
    CASE name = "Core" -> buildCoreLayer(p)
      [] name = "Safety" -> buildSafetyLayer
      [] name = "Identity" ->
            IF p.Instructions = <<>> THEN <<>>
            ELSE <<"## Custom Instructions", NL2>> \o p.Instructions
      [] name = "Thinking" -> buildThinkingLayer(p)
      [] name = "Bootstrap" -> buildBootstrapLayer(p)
      [] name = "Business" ->
            IF p.BusinessContext = <<>> THEN <<>>
            ELSE <<"## Workspace Context", NL2>> \o p.BusinessContext
      [] name = "Skills" -> buildSkillsLayer(p)
      [] name = "Memory" -> buildMemoryLayer(p)
      [] name = "Temporal" -> buildTemporalLayer
      [] name = "Conversation" -> buildConversationLayer(p)
      [] OTHER -> buildRuntimeLayer(p)

\* The contents of the layers of the table from position i on that are not
\* empty, each followed by the double newline unless it is the last.
RECURSIVE JoinedFrom(_, _)
JoinedFrom(i, p) ==
    IF i > Len(LayerTable) THEN <<>>
    ELSE LET c == ContentOf(LayerTable[i].name, p)
             rest == JoinedFrom(i + 1, p)
         IN  IF c = <<>> THEN rest
             ELSE IF rest = <<>> THEN c
             ELSE c \o <<NL2>> \o rest

\* The table is in strictly ascending priority, and the code has the same
\* numbers.
PrioritiesAscending ==
    /\ \A i \in 1..Len(LayerTable) : LayerTable[i].layer = LayerTable[i].priority
    /\ \A i \in 1..(Len(LayerTable) - 1) : LayerTable[i].priority < LayerTable[i + 1].priority

\* The text begins with the Core and the Safety layer.
CoreAndSafetyPresent ==
    SubSeq(prompt.out, 1, Len(buildCoreLayer(prompt.cfg)) + 1 + Len(buildSafetyLayer))
        = buildCoreLayer(prompt.cfg) \o <<NL2>> \o buildSafetyLayer

\* C31: Compose returns the non-empty layers joined by double newlines in
\* ascending priority order, Core 0 to Runtime 80; an empty layer
\* contributes nothing; Core and Safety are in every composed prompt.
C31_Compose ==
    prompt.pc = "done" =>
        /\ PrioritiesAscending
        /\ prompt.out = JoinedFrom(1, prompt.cfg)
        /\ CoreAndSafetyPresent

\* A prompt composed with the Thinking and the Memory layer empty (the
\* thinking level is not one Compose knows) and all the others not.
C31_Witness ==
    /\ prompt.pc = "done"
    /\ prompt.cfg.ThinkingLevel = "max"
    /\ prompt.cfg.Facts = <<>>
    /\ prompt.cfg.Instructions # <<>>
    /\ prompt.cfg.BootstrapFiles # <<>>
    /\ prompt.cfg.BusinessContext # <<>>
    /\ prompt.cfg.ActiveSkills # <<>>
    /\ prompt.cfg.History # <<>>
    /\ Len(SelectSeq(prompt.out, LAMBDA t : t = "## Thinking Mode")) = 0
    /\ Len(SelectSeq(prompt.out, LAMBDA t : t = "## Skills")) = 1

\* The size estimate of a text: the number of its pieces.
EstimateTokens(text) == Len(text)

\* The summed estimate of the first k layers of the table.
RECURSIVE SummedEstimate(_, _)
SummedEstimate(k, p) ==
    IF k = 0 THEN 0
    ELSE SummedEstimate(k - 1, p) + EstimateTokens(ContentOf(LayerTable[k].name, p))

\* The first k layers of the table, joined.
RECURSIVE JoinedUpTo(_, _)
JoinedUpTo(k, p) ==
    IF k = 0 THEN <<>>
    ELSE LET c == ContentOf(LayerTable[k].name, p)
             before == JoinedUpTo(k - 1, p)
         IN  IF c = <<>> THEN before
             ELSE IF before = <<>> THEN c
             ELSE before \o <<NL2>> \o c

\* The layers up to Bootstrap are never trimmed; Business is the first
\* layer of the table that can be.
FirstTrimmable ==
    CHOOSE i \in 1..Len(LayerTable) : LayerTable[i].name = "Business"

\* The number of layers of the table kept for a budget: all when they fit,
\* else as many as fit, but never fewer than those that are not trimmed.
KeptLayers(p) ==
    LET fitting == {k \in (FirstTrimmable - 1)..Len(LayerTable) :
                       SummedEstimate(k, p) <= p.TokenBudget}
    IN  IF fitting = {} THEN FirstTrimmable - 1
        ELSE CHOOSE k \in fitting : \A j \in fitting : j <= k

\* C32: when the summed estimate of the layers exceeds TokenBudget the
\* layers are trimmed from Runtime downward, as far as Business, until the
\* prompt fits; Core and Safety stay; a layer that is present has every
\* non-empty layer of smaller priority present.
C32_TokenBudget ==
    prompt.pc = "done" =>
        /\ prompt.out = JoinedUpTo(KeptLayers(prompt.cfg), prompt.cfg)
        /\ CoreAndSafetyPresent

----------------------------------------------------------------------------
(* Assistant.maybeCompactSession after a session update: SpecSession *)

\* Bound of the model: the longest history before the update.
MaxHistoryLen == 90

\* The values of config.Memory.MaxMessages: unset, negative, small, and the
\* default.
MaxMessagesValues == {-1, 0, 5, 10, 13, 15, 20, 100}

\* threshold of maybeCompactSession
CompactionThreshold(maxMessages) ==
    IF maxMessages <= 0 THEN 100 ELSE maxMessages

\* preventiveThreshold of maybeCompactSession
preventiveThreshold(maxMessages) ==
    IF (CompactionThreshold(maxMessages) * 80) \div 100 < 10 THEN 10
    ELSE (CompactionThreshold(maxMessages) * 80) \div 100

SessionInit ==
    /\ now = 0
    /\ items = [s \in Sessions |-> <<>>]
    /\ timer = [s \in Sessions |-> NilTimer]
    /\ cb = [s \in Sessions |-> 0]
    /\ processing = [s \in Sessions |-> FALSE]
    /\ nextId = 0
    /\ drains = [s \in Sessions |-> <<>>]
    /\ accepted = [s \in Sessions |-> <<>>]
    /\ cmIn = <<>>
    /\ cmOut = <<>>
    /\ PInitVars
    /\ gIn = <<>>
    /\ gOut = NotChecked
    /\ RIdle
    /\ RunIdle
    /\ prompt = [pc |-> "idle"]
    /\ \E m \in MaxMessagesValues, h \in 0..MaxHistoryLen :
          sess = [pc |-> "update", MaxMessages |-> m, histLen |-> h, compaction |-> FALSE]

\* session.AddMessage, then maybeCompactSession: doCompactSession is
\* called unless histLen < preventiveThreshold.
SessionUpdate ==
    /\ sess.pc = "update"
    /\ sess' = [sess EXCEPT !.pc = "done", !.histLen = @ + 1,
                            !.compaction = ~(sess.histLen + 1 < preventiveThreshold(sess.MaxMessages))]
    /\ UNCHANGED <<prompt, cmIn, cmOut, gIn, gOut, rvars, ag, env, interruptCh, alog, ov,
                   tvars, pvars, qvars>>

SessionNext == SessionUpdate

SpecSession == SessionInit /\ [][SessionNext]_vars

\* MaxMessages, taken as 100 when unset or not positive.
EffectiveMaxMessages ==
    IF sess.MaxMessages <= 0 THEN 100 ELSE sess.MaxMessages

\* C33: after a session update the preventive compaction is started
\* exactly when HistoryLen >= 80% of MaxMessages (100 when unset or not
\* positive), for every MaxMessages.
C33_CompactionTrigger ==
    sess.pc = "done" =>
        (sess.compaction <=> 100 * sess.histLen >= 80 * EffectiveMaxMessages)

----------------------------------------------------------------------------
(* Claims about the conversation of a run *)

\* The last message of the conversation.
LastMessage == ag.messages[Len(ag.messages)]

\* While Execute runs, the conversation ends with the assistant message
\* that carries the tool calls of the response.
PendingBatch ==
    ag.pc = "tools" =>
        /\ LastMessage.Role = "assistant"
        /\ LastMessage.ToolCalls = ToolCallsOf(ag.totalTurns, ag.toolCalls)
        /\ ag.toolCalls > 0

\* The tool message of an executor result.
ToolMessageOf(result) ==
    [Role |-> "tool", Text |-> <<result.Content>>, Len |-> 100, Cut |-> 0,
     ToolCalls |-> <<>>, ToolCallID |-> result.ToolCallID]

\* Execute gave one result per call of the batch, each with the id of its
\* call.
OnePerCall(results, calls) ==
    /\ Len(results) = Len(calls)
    /\ \A c \in 1..Len(calls) :
          \E i \in 1..Len(results) :
             /\ results[i].ToolCallID = calls[c]
             /\ \A j \in 1..Len(results) : results[j].ToolCallID = calls[c] => j = i

\* The step that ends a batch appends the tool messages of the results
\* right after the assistant message, in the order of the results, and
\* goes on to the next turn without an error.
BatchStep ==
    (ag.pc = "tools" /\ ag' # ag) =>
        /\ OnePerCall(ag'.results, LastMessage.ToolCalls)
        /\ ag'.messages = ag.messages \o [i \in 1..Len(ag'.results) |->
                                              ToolMessageOf(ag'.results[i])]
        /\ ag'.pc = "turn"
        /\ ag'.err = ""

\* C36: after a tool batch the conversation of the run holds the assistant
\* message with the tool_calls, immediately followed by exactly one tool
\* message per executor result, in the order the executor returned them and
\* each with the id of its call; results that are errors, recoverable or
\* not, are appended as well and do not end the run.
C36_ToolBatch ==
    /\ []PendingBatch
    /\ [][BatchStep]_vars

\* A batch of two calls came back in the other order, both with errors,
\* and the run went on to its next LLM call and returned its answer.
C36_Witness ==
    /\ ag.pc = "returned"
    /\ ag.err = ""
    /\ ag.totalTurns = 2
    /\ Len(ag.results) = 2
    /\ ag.results[1] = [ToolCallID |-> <<1, 2>>, Content |-> "error", Error |-> TRUE]
    /\ ag.results[2] = [ToolCallID |-> <<1, 1>>, Content |-> "recoverable error", Error |-> TRUE]
    /\ ag.messages[Len(ag.messages)].ToolCallID = <<1, 1>>
    /\ ag.messages[Len(ag.messages) - 2].ToolCalls = <<<<1, 1>>, <<1, 2>>>>

\* An LLM call of the run failed with an error that is neither a context
\* overflow recovered from nor a timeout.
FatalFailure == ag.wrapped = "provider error"

\* The step on which the call fails ends the run: RunWithUsage returns the
\* error with the conversation as it was, and no call is made for it.
FatalStep ==
    (~FatalFailure /\ FatalFailure') =>
        /\ ag.pc \in {"llm", "retry", "summary", "single"}
        /\ ag'.pc = "returned"
        /\ ag'.err # ""
        /\ ag'.messages = ag.messages
        /\ alog' = alog

\* After the failure there is no LLM call and no tool execution, and the
\* only step left is the one reply of executeAgent.
AfterFatal ==
    FatalFailure =>
        /\ alog'.llm = alog.llm
        /\ alog'.tools = alog.tools
        /\ ag'.messages = ag.messages
        /\ ag' # ag => (ag.pc = "returned" /\ ag'.pc = "replied" /\ ag.reply = "")

\* The reply is the failure reply; a run stopped by StopActiveRun before
\* executeAgent looks at its context is answered as stopped.
FailureReply ==
    (FatalFailure /\ ag.pc = "replied") =>
        ag.reply = IF env.cancelled THEN "Agent stopped." ELSE "error"

Paired(messages) ==
    \A i \in 1..Len(messages) :
        messages[i].Role = "tool" =>
            \E j \in 1..(i - 1) :
               /\ messages[j].Role = "assistant"
               /\ \E c \in 1..Len(messages[j].ToolCalls) :
                     messages[j].ToolCalls[c] = messages[i].ToolCallID

\* C38: after compactMessages has dropped older messages, every tool message
\* that is kept still comes after the assistant message whose tool_calls
\* have its tool_call_id; no tool message is left without it at the head of
\* the conversation.
C38_NoOrphanTool ==
    \A j \in 1..Len(Compactions) :
        Paired(Compactions[j].before) => Paired(Compactions[j].after)

\* The overflow recovery never writes to the messages of the caller.
CallerKept ==
    ov.pc # "idle" => ov'.caller = ov.caller

\* The first request is the conversation of the caller, and it is what the
\* caller has when the function returns, with a response or with an error.
CallerUnchanged ==
    /\ (ov.pc # "idle" /\ ov.calls # <<>>) => ov.calls[1] = ov.caller
    /\ (ov.pc = "returned" /\ ov.recov # <<>>) =>
          /\ ov.recov[1].before = ov.caller
          /\ Len(ov.caller) = Len(ov.recov[1].before)

\* C39: the overflow recovery leaves the conversation of the run unchanged:
\* the truncation and the compaction inside doLLMCallWithOverflowRetry apply
\* to the request that is retried only, and when the function returns, with
\* a response or an error, the messages of the agent loop have the length
\* and the contents they had before the call.
C39_CallerUnchanged ==
    /\ [][CallerKept]_vars
    /\ []CallerUnchanged

\* A call returned its response after a truncation and a compaction: the
\* request sent last is shorter than the conversation of the caller, which
\* still has all its messages and its tool results of 5000 characters.
C39_Witness ==
    /\ ov.pc = "returned"
    /\ ov.err = ""
    /\ Len(ov.recov) = 2
    /\ ov.recov[1].kind = "truncate"
    /\ ov.recov[2].kind = "compact"
    /\ Len(ov.messages) = 21
    /\ Len(ov.caller) = MaxRequest + 1
    /\ ov.caller[4].Len = 5000
    /\ ov.messages[Len(ov.messages)].Len = 100

----------------------------------------------------------------------------
(* Claims about the queue *)

\* C5: with no Drain since the messages of accepted[s] were accepted, the
\* pending list holds at most maxPending entries and is exactly the last
\* maxPending accepted messages in arrival order (the oldest are evicted);
\* Enqueue never blocks: it is enabled in every state.
C5_QueueCap ==
    \A s \in Sessions :
        /\ Len(items[s]) <= maxPending
        /\ DrainMsgs(s) = LastN(accepted[s], maxPending)
        /\ nextId < MaxMsgs => \A c \in QContents : ENABLED QEnqueue(s, c)

\* More than maxPending messages were accepted without a Drain.
C5_Witness ==
    \E s \in Sessions :
        /\ Len(accepted[s]) > maxPending
        /\ Len(items[s]) = maxPending
        /\ items[s][1].msg = accepted[s][Len(accepted[s]) - maxPending + 1]

\* No two pending entries of a session have the same content and enqueue
\* times less than the dedup window apart.
NoDupPending ==
    \A s \in Sessions : \A i, j \in 1..Len(items[s]) :
        (i < j /\ items[s][i].msg.content = items[s][j].msg.content)
            => items[s][j].enqueued - items[s][i].enqueued >= DedupWindowSec * 1000

\* An Enqueue of content c in session s: dropped without any change of the
\* queue when c is pending in s since less than 5 s, accepted otherwise.
DedupStep ==
    \A s \in Sessions, c \in QContents :
        QEnqueue(s, c) =>
            IF \E i \in 1..Len(items[s]) :
                   /\ items[s][i].msg.content = c
                   /\ now < items[s][i].enqueued + DedupWindowSec * 1000
            THEN items' = items /\ timer' = timer
            ELSE /\ Len(items'[s]) >= 1
                 /\ items'[s][Len(items'[s])] = [msg |-> NewMsg(s, "own", c), enqueued |-> now]

\* C6: an Enqueue whose content equals that of an entry pending in the same
\* session and enqueued less than 5 s earlier leaves the queue unchanged, so
\* identical content within the window is pending once; the same content in
\* another session, or after the window, is accepted.
C6_Dedup ==
    []NoDupPending /\ [][DedupStep]_vars

\* Of three enqueues of one content in one session, the second was dropped
\* inside the window and the third accepted after it.
C6_Witness ==
    \E s \in Sessions :
        /\ nextId = 3
        /\ Len(items[s]) = 2
        /\ items[s][1].msg.ids = <<1>>
        /\ items[s][2].msg.ids = <<3>>
        /\ items[s][1].msg.content = items[s][2].msg.content

\* The ids of the messages of all batches of session s, in order.
RECURSIVE BatchIds(_)
BatchIds(log) ==
    IF log = <<>> THEN <<>>
    ELSE [i \in 1..Len(log[1].msgs) |-> log[1].msgs[i].ids[1]] \o BatchIds(Tail(log))

NoRepeat(q) ==
    \A i, j \in 1..Len(q) : i # j => q[i] # q[j]

\* A step in which onDrain is invoked for session s.
OnDrainStep(s) ==
    /\ Len(drains'[s]) = Len(drains[s]) + 1
    /\ drains'[s][Len(drains'[s])].onDrain

\* When onDrain is invoked and the timer of the last Enqueue is the one that
\* fired, the debounce interval of the last Enqueue has elapsed; the batch is
\* all pending messages in enqueue order and the pending list is empty after.
DebounceStep ==
    \A s \in Sessions :
        OnDrainStep(s) =>
            /\ drains'[s][Len(drains'[s])].msgs = LastN(accepted[s], maxPending)
            /\ drains'[s][Len(drains'[s])].msgs # <<>>
            /\ items'[s] = <<>>
            /\ timer[s].fired => now >= items[s][Len(items[s])].enqueued + debounceMs

\* C7: enqueues that each arrive before the timer of the previous one fires
\* are delivered by one onDrain call, made only after the debounce interval
\* of the last enqueue, with all pending messages in enqueue order; the
\* pending list is empty afterwards and no message is delivered twice.
C7_Debounce ==
    [](\A s \in Sessions : NoRepeat(BatchIds(drains[s]))) /\ [][DebounceStep]_vars

\* Two messages enqueued at different times were delivered in one batch.
C7_Witness ==
    \E s \in Sessions :
        /\ Len(drains[s]) = 1
        /\ drains[s][1].onDrain
        /\ Len(drains[s][1].msgs) = 2
        /\ items[s] = <<>>
        /\ now >= 2 * debounceMs

\* The places of the messages in the results of Drain: session, batch,
\* position.
Places ==
    {<<s, i, p>> \in Sessions \X (1..MaxMsgs) \X (1..MaxMsgs) :
        i <= Len(drains[s]) /\ p <= Len(drains[s][i].msgs)}

\* The message at a place.
Drained(pl) == drains[pl[1]][pl[2]].msgs[pl[3]]

\* No message is in two results of Drain, or twice in one, and a message
\* still pending is in none.
DrainedOnce ==
    /\ \A a, b \in Places : Drained(a).ids = Drained(b).ids => a = b
    /\ \A a \in Places : \A s \in Sessions : \A k \in 1..Len(items[s]) :
          items[s][k].msg.ids # Drained(a).ids

\* What Drain returned are messages Enqueue was called with, of the session.
DrainedWereEnqueued ==
    \A a \in Places :
        /\ Drained(a).ids[1] \in 1..nextId
        /\ Drained(a).sess = a[1]

\* No result handed to onDrain is empty.
NoEmptyBatch ==
    \A s \in Sessions : \A i \in 1..Len(drains[s]) :
        drains[s][i].onDrain => drains[s][i].msgs # <<>>

\* A Drain that finds messages returns all of them and leaves none
\* pending; a callback that finds none, because an explicit Drain or the
\* callback of another timer came first, calls nothing.
DrainTakesAll ==
    \A s \in Sessions :
        /\ drains'[s] # drains[s] =>
              /\ drains'[s] = Append(drains[s], drains'[s][Len(drains'[s])])
              /\ drains'[s][Len(drains'[s])].msgs = DrainMsgs(s)
              /\ items[s] # <<>>
              /\ items'[s] = <<>>
        /\ (cb'[s] < cb[s] /\ items[s] = <<>>) => drains'[s] = drains[s]

\* C40: under any interleaving of Enqueue, timer callbacks (the callback of
\* a timer that had fired before it was stopped included) and explicit
\* Drain calls, every message accepted by Enqueue is returned by at most one
\* Drain, on_drain is never invoked with an empty batch, and no message is
\* handed to on_drain twice.
C40_DrainOnce ==
    /\ [](DrainedOnce /\ DrainedWereEnqueued /\ NoEmptyBatch)
    /\ [][DrainTakesAll]_vars

\* The timer of the first message fired, the second message arrived and
\* restarted the timer before the callback ran, and the callback of the
\* first timer delivered both, one debounce interval after the first.
C40_Witness ==
    /\ now = debounceMs
    /\ Len(drains["dm"]) = 1
    /\ drains["dm"][1].onDrain
    /\ Len(drains["dm"][1].msgs) = 2
    /\ drains["dm"][1].msgs[2].ids = <<2>>
    /\ cb["dm"] = 0
    /\ items["dm"] = <<>>
    /\ timer["dm"] = NilTimer

====
